---- MODULE Spec2Model ----
(***************************************************************************)
(* Model of the OT compliance dashboard: the sheet-processing fold         *)
(* (utils/excelHelpers.ts processSheet), the statistics aggregation        *)
(* (calculateStats) and the filtered views of the Dashboard component.     *)
(*                                                                         *)
(* Conventions                                                             *)
(*  - a JS string is a sequence of one-character strings, so that trim,    *)
(*    String(number) and comparisons are computed and not assumed;         *)
(*  - a JS Date is its time value in whole seconds since the Unix epoch    *)
(*    (the code's milliseconds divided by 1000: every date of the model is *)
(*    a whole number of seconds); a nullable Date is <<>> (null) or <<t>>; *)
(*  - a ParsedOT object is referred to by its position in allRows (every   *)
(*    object processSheet creates is pushed there exactly once), so that   *)
(*    object identity is the equality of references;                       *)
(*  - a spreadsheet column is named by the role the mapping gives it.      *)
(***************************************************************************)
EXTENDS Integers, Sequences, FiniteSets, TLC

VARIABLES
    tzOffset,                        \* local time zone, seconds east of UTC
    pc,                              \* "idle" | "loading" | "rows" | "dashboard"
    workbook,                        \* App state: null or the sheet names
    selectedSheet,                   \* App state: null or a sheet name
    loading,                         \* App state
    error,                           \* App state: null or a message
    stored,                          \* the App state slots that hold the result
    jsonData,                        \* rows returned by sheet_to_json
    mapping,                         \* ColumnMapping passed to processSheet
    rowIdx,                          \* rows already visited by forEach
    allRows,                         \* ParsedOT[] (the heap of records)
    otMapForCompliance,              \* Map<string, ParsedOT>, insertion order
    totalRows,
    emptyRows,
    duplicatesRemovedForCompliance,
    removedOtIds,
    uniqueOTs,                       \* references into allRows
    internalClientsCount,
    internalClientsByCode,
    selectedYear,                    \* Dashboard filter state
    selectedMonth,
    selectedWorkshop,
    dynamicFilters

sheetVars == <<jsonData, mapping, rowIdx, allRows, otMapForCompliance,
               totalRows, emptyRows, duplicatesRemovedForCompliance,
               removedOtIds, uniqueOTs, internalClientsCount,
               internalClientsByCode>>

\* the result of processSheet other than the records themselves
sheetVarsButRows == <<jsonData, mapping, rowIdx, otMapForCompliance,
                      totalRows, emptyRows, duplicatesRemovedForCompliance,
                      removedOtIds, uniqueOTs, internalClientsCount,
                      internalClientsByCode>>

filterVars == <<selectedYear, selectedMonth, selectedWorkshop, dynamicFilters>>

\* the useState slots of App (lines 12-27); the values of the slots named in
\* stored are the variables allRows, uniqueOTs, the report counters and mapping
appVars == <<workbook, selectedSheet, loading, error, stored>>

vars == <<tzOffset, pc, appVars, sheetVars, filterVars>>

----------------------------------------------------------------------------
(* Bounds of the model *)

MaxRows == 3

MaxStatsRows == 2

MaxAppRows == 1
\* most rows of a sheet of on-time, late and pending orders
MaxRateRows == 10
\* most rows of a sheet of orders spread over workshops
MaxAggRows == 4
\* most rows of a sheet of rows with unusable cells
MaxDirtyRows == 3
\* most rows of a sheet of duplicates that differ in other fields
MaxVariedRows == 3

----------------------------------------------------------------------------
(* Strings *)

WhiteSpace == {" "}

RECURSIVE TrimStart(_)
TrimStart(s) ==
    IF s # <<>> /\ Head(s) \in WhiteSpace THEN TrimStart(Tail(s)) ELSE s

RECURSIVE TrimEnd(_)
TrimEnd(s) ==
    IF s # <<>> /\ s[Len(s)] \in WhiteSpace
    THEN TrimEnd(SubSeq(s, 1, Len(s) - 1))
    ELSE s

Trim(s) == TrimEnd(TrimStart(s))

Digits == <<"0", "1", "2", "3", "4", "5", "6", "7", "8", "9">>

RECURSIVE NatToString(_)
NatToString(n) ==
    IF n < 10 THEN <<Digits[n + 1]>>
    ELSE NatToString(n \div 10) \o <<Digits[(n % 10) + 1]>>

NumberToString(n) == IF n < 0 THEN <<"-">> \o NatToString(-n) ELSE NatToString(n)

IsDigit(ch) == \E i \in 1..10 : Digits[i] = ch

DigitValue(ch) == (CHOOSE i \in 1..10 : Digits[i] = ch) - 1

RECURSIVE ParseNat(_)
ParseNat(s) ==
    IF s = <<>> THEN 0
    ELSE 10 * ParseNat(SubSeq(s, 1, Len(s) - 1)) + DigitValue(s[Len(s)])

AllDigits(s) == s # <<>> /\ \A i \in 1..Len(s) : IsDigit(s[i])

Includes(s, ch) == \E i \in 1..Len(s) : s[i] = ch

UpperCase ==
    <<"A", "B", "C", "D", "E", "F", "G", "H", "I", "J", "K", "L", "M",
      "N", "O", "P", "Q", "R", "S", "T", "U", "V", "W", "X", "Y", "Z">>

LowerCase ==
    <<"a", "b", "c", "d", "e", "f", "g", "h", "i", "j", "k", "l", "m",
      "n", "o", "p", "q", "r", "s", "t", "u", "v", "w", "x", "y", "z">>

\* case-sensitive matching: the text is left as it is
ToLowerCaseSkipped(s) == s

\* String.prototype.toLowerCase
ToLowerCase(s) ==
    [i \in 1..Len(s) |->
        IF \E k \in 1..Len(UpperCase) : UpperCase[k] = s[i]
        THEN LowerCase[CHOOSE k \in 1..Len(UpperCase) : UpperCase[k] = s[i]]
        ELSE s[i]]

\* String.prototype.includes with a string argument
IncludesString(s, sub) ==
    \E p \in 0..(Len(s) - Len(sub)) : SubSeq(s, p + 1, p + Len(sub)) = sub

----------------------------------------------------------------------------
(* Cells of a raw row: undefined, a string, a number or a Date *)

Undefined == [t |-> "undefined", s |-> <<>>, n |-> 0]

Str(s) == [t |-> "string", s |-> s, n |-> 0]

Num(n) == [t |-> "number", s |-> <<>>, n |-> n]

DateCell(secs) == [t |-> "Date", s |-> <<>>, n |-> secs]

InvalidDateCell == [t |-> "InvalidDate", s |-> <<>>, n |-> 0]

\* JS truthiness of a cell value (the left operand of `||`)
Truthy(c) ==
    CASE c.t = "undefined" -> FALSE
      [] c.t = "string" -> c.s # <<>>
      [] c.t = "number" -> c.n # 0
      [] OTHER -> TRUE

\* String(value) for the values text columns hold
ToStr(c) ==
    CASE c.t = "string" -> c.s
      [] c.t = "number" -> NumberToString(c.n)

\* String(cell || dflt).trim()
TrimmedOr(c, dflt) == Trim(IF Truthy(c) THEN ToStr(c) ELSE dflt)

----------------------------------------------------------------------------
(* Dates *)

Null == <<>>

Some(v) == <<v>>

SecPerDay == 86400

ExcelEpochOffset == 25569

\* new Date(Math.round((serial - 25569) * 86400 * 1000)), in seconds
\* serial 1 read as 1900-01-01, without the leap-day correction of the epoch
SerialToDateFrom1900(n) == (n - (ExcelEpochOffset - 1)) * SecPerDay

SerialToDate(n) == (n - ExcelEpochOffset) * SecPerDay

\* Date.prototype.setHours(0, 0, 0, 0): local midnight of the date's local day
SetHoursZero(t) == t - ((t + tzOffset) % SecPerDay)

\* Date.prototype.getFullYear / getMonth: the civil date of the local day
LocalDays(t) == (t + tzOffset) \div SecPerDay

CivilFromDays(days) ==
    LET z == days + 719468
        era == z \div 146097
        doe == z - era * 146097
        yoe == (doe - doe \div 1460 + doe \div 36524 - doe \div 146096) \div 365
        doy == doe - (365 * yoe + yoe \div 4 - yoe \div 100)
        mp == (5 * doy + 2) \div 153
        d == doy - (153 * mp + 2) \div 5 + 1
        m == IF mp < 10 THEN mp + 3 ELSE mp - 9
        y == yoe + era * 400 + (IF m <= 2 THEN 1 ELSE 0)
    IN  [year |-> y, month |-> m, day |-> d]

GetFullYear(t) == CivilFromDays(LocalDays(t)).year

GetMonth(t) == CivilFromDays(LocalDays(t)).month - 1

DaysFromCivil(y0, m, d) ==
    LET y == IF m <= 2 THEN y0 - 1 ELSE y0
        era == y \div 400
        yoe == y - era * 400
        doy == (153 * (IF m > 2 THEN m - 3 ELSE m + 9) + 2) \div 5 + d - 1
        doe == yoe * 365 + yoe \div 4 - yoe \div 100 + doy
    IN  era * 146097 + doe - 719468

\* new Date(year, monthIndex, day): local midnight; an out-of-range month or
\* day rolls over into the neighbouring months
NewLocalDate(year, monthIndex, day) ==
    LET y == year + (monthIndex \div 12)
        m == (monthIndex % 12) + 1
    IN  (DaysFromCivil(y, m, 1) + (day - 1)) * SecPerDay - tzOffset

----------------------------------------------------------------------------
(* excelHelpers.ts: field normalizers *)

INTERNAL_CLIENT_CODES ==
    << <<"C", "0", "0", "0", "8", "1", "5", "7">>,
       <<"C", "0", "0", "0", "1", "1", "1", "4">>,
       <<"C", "0", "0", "0", "1", "1", "4", "0">> >>

DateSeparators == {"/", "-"}

\* number of leading digits of s, at most max (a greedy \d{1,max})
RECURSIVE LeadingDigits(_, _)
LeadingDigits(s, max) ==
    IF max = 0 \/ s = <<>> \/ ~IsDigit(Head(s)) THEN 0
    ELSE 1 + LeadingDigits(Tail(s), max - 1)

Drop(s, k) == SubSeq(s, k + 1, Len(s))

\* /^(\d{a1,a2})[\/\-](\d{1,2})[\/\-](\d{c1,c2})/ : <<>> when there is no
\* match, else the three numbers
MatchDate(s, a1, a2, c1, c2) ==
    LET la == LeadingDigits(s, a2)
        s1 == Drop(s, la)
        lb == LeadingDigits(Drop(s1, 1), 2)
        s2 == Drop(Drop(s1, 1), lb)
        lc == LeadingDigits(Drop(s2, 1), c2)
    IN  IF /\ la >= a1
           /\ s1 # <<>> /\ Head(s1) \in DateSeparators
           /\ lb >= 1
           /\ s2 # <<>> /\ Head(s2) \in DateSeparators
           /\ lc >= c1
        THEN << ParseNat(SubSeq(s, 1, la)),
                ParseNat(SubSeq(Drop(s1, 1), 1, lb)),
                ParseNat(SubSeq(Drop(s2, 1), 1, lc)) >>
        ELSE <<>>

ParseDateString(s) ==
    LET trimmed == Trim(s)
        latamDate == MatchDate(trimmed, 1, 2, 4, 4)
        isoDate == MatchDate(trimmed, 4, 4, 1, 2)
    IN  IF trimmed = <<>> THEN Null
        ELSE IF /\ AllDigits(trimmed)
                /\ ~Includes(trimmed, "/") /\ ~Includes(trimmed, "-")
                /\ ~Includes(trimmed, ":")
        THEN Some(SerialToDate(ParseNat(trimmed)))
        ELSE IF latamDate # <<>>
        THEN Some(NewLocalDate(latamDate[3], latamDate[2] - 1, latamDate[1]))
        ELSE IF isoDate # <<>>
        THEN Some(NewLocalDate(isoDate[1], isoDate[2] - 1, isoDate[3]))
        ELSE Null     \* new Date(text) of a text that is no date: Invalid Date

ParseExcelDate(dateVal) ==
    CASE dateVal.t = "undefined" -> Null
      [] dateVal.t = "Date" -> Some(dateVal.n)
      [] dateVal.t = "InvalidDate" -> Null
      [] dateVal.t = "number" -> Some(SerialToDate(dateVal.n))
      [] dateVal.t = "string" -> ParseDateString(dateVal.s)

AmountChars == {"0", "1", "2", "3", "4", "5", "6", "7", "8", "9", ".", "-"}

\* the text parsed as it stands
StripAmountSkipped(s) == s

\* val.replace(/[^0-9.-]/g, '')
StripAmount(s) == SelectSeq(s, LAMBDA ch : ch \in AmountChars)

\* parseFloat of a cleaned text without fractional digits: an optional sign and
\* the leading digits; NaN (here <<>>) when no digit leads
ParseFloatInt(s) ==
    LET neg == s # <<>> /\ Head(s) = "-"
        body == IF neg THEN Tail(s) ELSE s
        k == LeadingDigits(body, Len(body))
    IN  IF k = 0 THEN <<>>
        ELSE <<(IF neg THEN -1 ELSE 1) * ParseNat(SubSeq(body, 1, k))>>

ParseAmount(val) ==
    CASE val.t = "number" -> val.n
      [] val.t = "string" ->
            LET num == ParseFloatInt(StripAmount(val.s))
            IN  IF num = <<>> THEN 0 ELSE num[1]
      [] OTHER -> 0

----------------------------------------------------------------------------
(* excelHelpers.ts: processSheet *)

SinTallerAsignado ==
    <<"S", "i", "n", " ", "T", "a", "l", "l", "e", "r", " ",
      "A", "s", "i", "g", "n", "a", "d", "o">>

SinTaller == <<"S", "i", "n", " ", "T", "a", "l", "l", "e", "r">>

NA == <<"N", "/", "A">>

Range(f) == {f[i] : i \in DOMAIN f}

IsInternalCode(clientCode) == clientCode \in Range(INTERNAL_CLIENT_CODES)

\* the ParsedOT built from a row whose OT number is not blank (lines 110-145)
ParseRow(row, map, otNumber) ==
    LET clientCode == TrimmedOr(row.clientCode, <<>>)
        workshopName == TrimmedOr(row.workshop, SinTallerAsignado)
    IN  [ id |-> otNumber,
          invoiceId |-> IF map.invoiceNumber
                        THEN Some(TrimmedOr(row.invoiceNumber, <<>>))
                        ELSE Null,
          folio |-> IF map.folio THEN TrimmedOr(row.folio, <<>>) ELSE <<>>,
          workshop |-> IF workshopName # <<>> THEN workshopName ELSE SinTaller,
          estimatedDate |-> ParseExcelDate(row.promisedDate),
          secondEstimatedDate |-> IF map.secondPromisedDate
                                  THEN ParseExcelDate(row.secondPromisedDate)
                                  ELSE Null,
          realDate |-> ParseExcelDate(row.realDeliveryDate),
          billingDate |-> IF map.billingDate
                          THEN ParseExcelDate(row.billingDate)
                          ELSE Null,
          status |-> "Procesado",
          clientCode |-> clientCode,
          isInternalClient |-> IsInternalCode(clientCode),
          amount |-> IF map.amount THEN ParseAmount(row.amount) ELSE 0,
          otType |-> IF map.otType THEN TrimmedOr(row.otType, <<>>) ELSE NA,
          customValues |-> [field \in Range(map.additionalFilters) |->
                                TrimmedOr(row[field], NA)] ]

\* Map<string, ParsedOT> as the sequence of its entries in insertion order
MapHas(m, key) == \E i \in 1..Len(m) : m[i].key = key

MapGet(m, key) == m[CHOOSE i \in 1..Len(m) : m[i].key = key].value

MapSet(m, key, value) ==
    IF MapHas(m, key)
    THEN [i \in 1..Len(m) |->
            IF m[i].key = key THEN [key |-> key, value |-> value] ELSE m[i]]
    ELSE Append(m, [key |-> key, value |-> value])

MapValues(m) == [i \in 1..Len(m) |-> m[i].value]

\* mutant: the real-date tie-break is tried before external-over-internal
DedupDecisionDateBeforeStatus(existingOT, parsedRow) ==
    IF ~existingOT.isInternalClient /\ parsedRow.isInternalClient
    THEN [replace |-> FALSE, reason |-> "Duplicado interno ignorado"]
    ELSE IF existingOT.realDate = Null /\ parsedRow.realDate # Null
    THEN [replace |-> TRUE,
          reason |-> "Reemplazado por registro con fecha entrega"]
    ELSE IF existingOT.isInternalClient /\ ~parsedRow.isInternalClient
         /\ existingOT.realDate = Null
    THEN [replace |-> TRUE, reason |-> "Reemplazado interno por externo"]
    ELSE [replace |-> FALSE, reason |-> "Duplicado ignorado"]

\* mutant: no tie-break on the real date
DedupDecisionWithoutTieBreak(existingOT, parsedRow) ==
    IF existingOT.isInternalClient /\ ~parsedRow.isInternalClient
    THEN [replace |-> TRUE, reason |-> "Reemplazado interno por externo"]
    ELSE IF ~existingOT.isInternalClient /\ parsedRow.isInternalClient
    THEN [replace |-> FALSE, reason |-> "Duplicado interno ignorado"]
    ELSE [replace |-> FALSE, reason |-> "Duplicado ignorado"]

\* mutant: the tie-break does not look at the survivor's real date
DedupDecisionLatestDated(existingOT, parsedRow) ==
    IF existingOT.isInternalClient /\ ~parsedRow.isInternalClient
    THEN [replace |-> TRUE, reason |-> "Reemplazado interno por externo"]
    ELSE IF ~existingOT.isInternalClient /\ parsedRow.isInternalClient
    THEN [replace |-> FALSE, reason |-> "Duplicado interno ignorado"]
    ELSE IF parsedRow.realDate # Null
    THEN [replace |-> TRUE,
          reason |-> "Reemplazado por registro con fecha entrega"]
    ELSE [replace |-> FALSE, reason |-> "Duplicado ignorado"]

\* the first row seen of an OT number is kept, whatever comes later
DedupDecisionFirstSeenWins(existingOT, parsedRow) ==
    IF ~existingOT.isInternalClient /\ parsedRow.isInternalClient
    THEN [replace |-> FALSE, reason |-> "Duplicado interno ignorado"]
    ELSE [replace |-> FALSE, reason |-> "Duplicado ignorado"]

\* an internal survivor with a real date is kept against an external row
\* without one
DedupDecisionKeepsDatedInternal(existingOT, parsedRow) ==
    IF /\ existingOT.isInternalClient /\ ~parsedRow.isInternalClient
       /\ ~(existingOT.realDate # Null /\ parsedRow.realDate = Null)
    THEN [replace |-> TRUE, reason |-> "Reemplazado interno por externo"]
    ELSE IF existingOT.isInternalClient # parsedRow.isInternalClient
    THEN [replace |-> FALSE, reason |-> "Duplicado interno ignorado"]
    ELSE IF existingOT.realDate = Null /\ parsedRow.realDate # Null
    THEN [replace |-> TRUE,
          reason |-> "Reemplazado por registro con fecha entrega"]
    ELSE [replace |-> FALSE, reason |-> "Duplicado ignorado"]

\* a further rule: among rows equal so far, a rescheduled row replaces one
\* that was not rescheduled
DedupDecisionPrefersRescheduled(existingOT, parsedRow) ==
    IF existingOT.isInternalClient /\ ~parsedRow.isInternalClient
    THEN [replace |-> TRUE, reason |-> "Reemplazado interno por externo"]
    ELSE IF ~existingOT.isInternalClient /\ parsedRow.isInternalClient
    THEN [replace |-> FALSE, reason |-> "Duplicado interno ignorado"]
    ELSE IF existingOT.realDate = Null /\ parsedRow.realDate # Null
    THEN [replace |-> TRUE,
          reason |-> "Reemplazado por registro con fecha entrega"]
    ELSE IF /\ (existingOT.realDate = Null) = (parsedRow.realDate = Null)
            /\ existingOT.secondEstimatedDate = Null
            /\ parsedRow.secondEstimatedDate # Null
    THEN [replace |-> TRUE, reason |-> "Duplicado ignorado"]
    ELSE [replace |-> FALSE, reason |-> "Duplicado ignorado"]

\* the priority logic of lines 156-169: whether the new row replaces the
\* survivor, and the reason pushed to removedOtIds
DedupDecision(existingOT, parsedRow) ==
    IF existingOT.isInternalClient /\ ~parsedRow.isInternalClient
    THEN [replace |-> TRUE, reason |-> "Reemplazado interno por externo"]
    ELSE IF ~existingOT.isInternalClient /\ parsedRow.isInternalClient
    THEN [replace |-> FALSE, reason |-> "Duplicado interno ignorado"]
    ELSE IF existingOT.realDate = Null /\ parsedRow.realDate # Null
    THEN [replace |-> TRUE,
          reason |-> "Reemplazado por registro con fecha entrega"]
    ELSE [replace |-> FALSE, reason |-> "Duplicado ignorado"]

\* mutant: the OT number is not trimmed
OtNumberUntrimmed(row) == IF Truthy(row.otNumber) THEN ToStr(row.otNumber) ELSE <<>>

\* String(row[mapping.otNumber] || '').trim()
OtNumberOf(row) == TrimmedOr(row.otNumber, <<>>)

\* mutant: the counter is never incremented
CountDuplicateMissed(n, decision) == n

\* mutant: only the rows that are themselves discarded are counted
CountDuplicateOnlyIgnored(n, decision) == IF decision.replace THEN n ELSE n + 1

\* line 152: the duplicate counter after a row whose id the map already
\* holds, whatever the priority logic then decides
CountDuplicate(n, decision) == n + 1

\* mutant: the first row of an id is not recorded
FirstSeenForgotten(m, otNumber, ref) == m

\* line 171: the Map after a row with an id it does not hold yet
FirstSeen(m, otNumber, ref) == MapSet(m, otNumber, ref)

\* App.tsx line 127
UploaderRendered == workbook = Null /\ ~loading

\* App.tsx line 154
SelectorRendered == workbook # Null /\ selectedSheet = Null

\* App.tsx line 188
MapperRendered == selectedSheet # Null /\ "uniqueOTs" \notin stored

\* App.tsx line 196
DashboardRendered == {"allRows", "uniqueOTs", "mapping"} \subseteq stored

\* App.tsx line 112
ErrorBannerRendered == error # Null

\* handleMappingConfirm (App.tsx lines 61-65) entering processSheet, and
\* processSheet up to the forEach: the locals of lines 93-99
StartSheet(rows, maps) ==
    /\ pc = "idle"
    /\ MapperRendered
    /\ workbook # Null /\ selectedSheet # Null
    /\ loading' = TRUE
    /\ UNCHANGED <<workbook, selectedSheet, error, stored>>
    /\ \E data \in rows, map \in maps :
          /\ jsonData' = data
          /\ mapping' = map
    /\ rowIdx' = 0
    /\ allRows' = <<>>
    /\ otMapForCompliance' = <<>>
    /\ totalRows' = 0
    /\ emptyRows' = 0
    /\ duplicatesRemovedForCompliance' = 0
    /\ removedOtIds' = <<>>
    /\ pc' = "rows"
    /\ UNCHANGED <<tzOffset, uniqueOTs, internalClientsCount,
                   internalClientsByCode, filterVars>>

\* one call of the forEach callback (lines 101-173)
ProcessRow ==
    /\ pc = "rows"
    /\ rowIdx < Len(jsonData)
    /\ LET row == jsonData[rowIdx + 1]
           otNumber == OtNumberOf(row)
           parsedRow == ParseRow(row, mapping, otNumber)
           ref == Len(allRows) + 1
       IN  /\ rowIdx' = rowIdx + 1
           /\ totalRows' = totalRows + 1
           /\ IF otNumber = <<>>
              THEN /\ emptyRows' = emptyRows + 1
                   /\ UNCHANGED <<allRows, otMapForCompliance,
                                  duplicatesRemovedForCompliance, removedOtIds>>
              ELSE /\ emptyRows' = emptyRows
                   /\ allRows' = Append(allRows, parsedRow)
                   /\ IF MapHas(otMapForCompliance, otNumber)
                      THEN LET existingRef == MapGet(otMapForCompliance, otNumber)
                               existingOT == allRows[existingRef]
                               decision == DedupDecision(existingOT, parsedRow)
                           IN  /\ duplicatesRemovedForCompliance' =
                                     CountDuplicate(duplicatesRemovedForCompliance,
                                                    decision)
                               /\ removedOtIds' =
                                     Append(removedOtIds,
                                            <<otNumber, decision.reason>>)
                               /\ otMapForCompliance' =
                                     IF decision.replace
                                     THEN MapSet(otMapForCompliance, otNumber, ref)
                                     ELSE otMapForCompliance
                      ELSE /\ otMapForCompliance' =
                                 FirstSeen(otMapForCompliance, otNumber, ref)
                           /\ UNCHANGED <<duplicatesRemovedForCompliance,
                                          removedOtIds>>
    /\ UNCHANGED <<tzOffset, pc, appVars, jsonData, mapping, uniqueOTs,
                   internalClientsCount, internalClientsByCode, filterVars>>

\* the reconciliation of lines 151-172 over the first k of a sequence of
\* records: the Map from OT number to the position of its survivor, and the
\* duplicate counter
RECURSIVE Reconcile(_, _)
Reconcile(records, k) ==
    IF k = 0 THEN [map |-> <<>>, duplicates |-> 0]
    ELSE LET prev == Reconcile(records, k - 1)
             parsedRow == records[k]
         IN  IF MapHas(prev.map, parsedRow.id)
             THEN LET existingOT == records[MapGet(prev.map, parsedRow.id)]
                      decision == DedupDecision(existingOT, parsedRow)
                  IN  [map |-> IF decision.replace
                               THEN MapSet(prev.map, parsedRow.id, k)
                               ELSE prev.map,
                       duplicates |-> CountDuplicate(prev.duplicates, decision)]
             ELSE [map |-> FirstSeen(prev.map, parsedRow.id, k),
                   duplicates |-> prev.duplicates]

\* the tally of lines 177-185 over the first k records of rows
RECURSIVE InternalByCode(_, _)
InternalByCode(rows, k) ==
    IF k = 0 THEN <<>>
    ELSE LET prev == InternalByCode(rows, k - 1)
             ot == rows[k]
         IN  IF ot.isInternalClient
             THEN IF MapHas(prev, ot.clientCode)
                  THEN MapSet(prev, ot.clientCode, MapGet(prev, ot.clientCode) + 1)
                  ELSE MapSet(prev, ot.clientCode, 0 + 1)
             ELSE prev

\* a tally over the records kept per OT id instead of over all records
InternalCountOverSurvivors(rows, k) ==
    Cardinality({e \in 1..Len(otMapForCompliance) :
                    rows[otMapForCompliance[e].value].isInternalClient})

RECURSIVE InternalCount(_, _)
InternalCount(rows, k) ==
    IF k = 0 THEN 0
    ELSE InternalCount(rows, k - 1) + (IF rows[k].isInternalClient THEN 1 ELSE 0)

All == <<"a", "l", "l">>

----------------------------------------------------------------------------
(* excelHelpers.ts: calculateStats *)

\* mutant: the original promised date is preferred to the rescheduled one
ClassifyPrefersOriginalDate(ot) ==
    LET targetDate == IF ot.estimatedDate # Null
                      THEN ot.estimatedDate
                      ELSE ot.secondEstimatedDate
    IN  IF ot.realDate # Null /\ targetDate # Null
        THEN LET target == SetHoursZero(targetDate[1])
                 real == SetHoursZero(ot.realDate[1])
             IN  IF real <= target THEN "onTime" ELSE "late"
        ELSE "pending"

\* mutant: the instants are compared, the time of day is not stripped
ClassifyComparesInstants(ot) ==
    LET targetDate == IF ot.secondEstimatedDate # Null
                      THEN ot.secondEstimatedDate
                      ELSE ot.estimatedDate
    IN  IF ot.realDate # Null /\ targetDate # Null
        THEN IF ot.realDate[1] <= targetDate[1] THEN "onTime" ELSE "late"
        ELSE "pending"

\* a record without a real date is counted under no tally
ClassifyDropsUndelivered(ot) ==
    LET targetDate == IF ot.secondEstimatedDate # Null
                      THEN ot.secondEstimatedDate
                      ELSE ot.estimatedDate
    IN  IF ot.realDate # Null /\ targetDate # Null
        THEN LET target == SetHoursZero(targetDate[1])
                 real == SetHoursZero(ot.realDate[1])
             IN  IF real <= target THEN "onTime" ELSE "late"
        ELSE IF ot.realDate = Null THEN "none"
        ELSE "pending"

\* lines 223-246: the tally one record is counted under
Classify(ot) ==
    LET targetDate == IF ot.secondEstimatedDate # Null
                      THEN ot.secondEstimatedDate
                      ELSE ot.estimatedDate
    IN  IF ot.realDate # Null /\ targetDate # Null
        THEN LET target == SetHoursZero(targetDate[1])
                 real == SetHoursZero(ot.realDate[1])
             IN  IF real <= target THEN "onTime" ELSE "late"
        ELSE IF targetDate # Null /\ ot.realDate = Null
        THEN "pending"
        ELSE "pending"

\* setHours applied to the record's own Date objects instead of to copies
VisitedInPlace(ot) ==
    LET second == ot.secondEstimatedDate # Null
        targetDate == IF second THEN ot.secondEstimatedDate ELSE ot.estimatedDate
    IN  IF ot.realDate # Null /\ targetDate # Null
        THEN [ot EXCEPT !.realDate = Some(SetHoursZero(ot.realDate[1])),
                        !.secondEstimatedDate =
                            IF second THEN Some(SetHoursZero(targetDate[1])) ELSE @,
                        !.estimatedDate =
                            IF second THEN @ ELSE Some(SetHoursZero(targetDate[1]))]
        ELSE ot

\* lines 210-246: the record as one call of the callback leaves it. The
\* callback only reads ot.amount, ot.workshop and the three dates; target and
\* real are new Date objects (lines 226-227) and setHours (lines 228-229)
\* changes those copies, so every field of the record keeps its value
Visited(ot) ==
    LET targetDate == IF ot.secondEstimatedDate # Null
                      THEN ot.secondEstimatedDate
                      ELSE ot.estimatedDate
        locals == IF ot.realDate # Null /\ targetDate # Null
                  THEN [target |-> SetHoursZero(targetDate[1]),
                        real |-> SetHoursZero(ot.realDate[1])]
                  ELSE <<>>
    IN  [field \in DOMAIN ot |-> ot[field]]

\* the records after calculateStats has run over those at refs
AfterCalculateStats(rows, refs) ==
    [i \in 1..Len(rows) |->
        IF \E k \in 1..Len(refs) : refs[k] = i THEN Visited(rows[i]) ELSE rows[i]]

\* lines 210-247: the workshop map and the global tallies after the first k
\* records of ots
RECURSIVE StatsFold(_, _)
StatsFold(ots, k) ==
    IF k = 0
    THEN [workshopMap |-> <<>>, globalTotal |-> 0, globalOnTime |-> 0,
          globalLate |-> 0, globalPending |-> 0, globalAmount |-> 0]
    ELSE LET acc == StatsFold(ots, k - 1)
             ot == ots[k]
             class == Classify(ot)
             old == IF MapHas(acc.workshopMap, ot.workshop)
                    THEN MapGet(acc.workshopMap, ot.workshop)
                    ELSE [total |-> 0, onTime |-> 0, late |-> 0,
                          pending |-> 0, amount |-> 0]
             stats == [total |-> old.total + 1,
                       onTime |-> old.onTime + (IF class = "onTime" THEN 1 ELSE 0),
                       late |-> old.late + (IF class = "late" THEN 1 ELSE 0),
                       pending |-> old.pending + (IF class = "pending" THEN 1 ELSE 0),
                       amount |-> old.amount + ot.amount]
         IN  [workshopMap |-> MapSet(acc.workshopMap, ot.workshop, stats),
              globalTotal |-> acc.globalTotal + 1,
              globalOnTime |-> acc.globalOnTime + (IF class = "onTime" THEN 1 ELSE 0),
              globalLate |-> acc.globalLate + (IF class = "late" THEN 1 ELSE 0),
              globalPending |-> acc.globalPending + (IF class = "pending" THEN 1 ELSE 0),
              globalAmount |-> acc.globalAmount + ot.amount]

\* the rate cut after two decimals instead of rounded
RateTruncated(onTime, total) ==
    IF total > 0 THEN (onTime * 10000) \div total ELSE 0

\* parseFloat(((onTime / total) * 100).toFixed(2)), in hundredths of a percent
Rate(onTime, total) ==
    IF total > 0 THEN (onTime * 20000 + total) \div (2 * total) ELSE 0

\* a sort that puts a workshop before the earlier ones of the same total
RECURSIVE InsertByTotalUnstable(_, _)
InsertByTotalUnstable(sorted, w) ==
    IF sorted = <<>> THEN <<w>>
    ELSE IF w.totalOTs >= sorted[Len(sorted)].totalOTs
    THEN Append(InsertByTotalUnstable(SubSeq(sorted, 1, Len(sorted) - 1), w),
                sorted[Len(sorted)])
    ELSE Append(sorted, w)

\* Array.prototype.sort((a, b) => b.totalOTs - a.totalOTs): a stable sort
RECURSIVE InsertByTotal(_, _)
InsertByTotal(sorted, w) ==
    IF sorted = <<>> THEN <<w>>
    ELSE IF w.totalOTs > sorted[Len(sorted)].totalOTs
    THEN Append(InsertByTotal(SubSeq(sorted, 1, Len(sorted) - 1), w),
                sorted[Len(sorted)])
    ELSE Append(sorted, w)

RECURSIVE SortByTotal(_, _)
SortByTotal(ws, k) ==
    IF k = 0 THEN <<>> ELSE InsertByTotal(SortByTotal(ws, k - 1), ws[k])

CalculateStats(ots) ==
    LET acc == StatsFold(ots, Len(ots))
        workshops == [i \in 1..Len(acc.workshopMap) |->
            LET val == acc.workshopMap[i].value
            IN  [name |-> acc.workshopMap[i].key,
                 totalOTs |-> val.total,
                 onTime |-> val.onTime,
                 late |-> val.late,
                 pending |-> val.pending,
                 complianceRate |-> Rate(val.onTime, val.total),
                 totalAmount |-> val.amount]]
    IN  [totalOTs |-> acc.globalTotal,
         totalOnTime |-> acc.globalOnTime,
         totalLate |-> acc.globalLate,
         totalPending |-> acc.globalPending,
         averageCompliance |-> Rate(acc.globalOnTime, acc.globalTotal),
         totalAmount |-> acc.globalAmount,
         workshops |-> SortByTotal(workshops, Len(workshops))]

----------------------------------------------------------------------------
(* Dashboard component: filter state and the memoized views *)

\* one matching custom filter is enough
DynamicMatchAnyFilter(ot, filters) ==
    \/ filters = <<>>
    \/ \E i \in 1..Len(filters) :
          filters[i].value = All \/ ot.customValues[filters[i].key] = filters[i].value

\* `value !== 'all' && ot.customValues[field] !== value` for no entry
DynamicMatch(ot, filters) ==
    \A i \in 1..Len(filters) :
        filters[i].value = All \/ ot.customValues[filters[i].key] = filters[i].value

\* the month criterion applied on its own, whether or not a year is selected
CheckFiltersMonthWithoutYear(ot, year, month, workshop, filters) ==
    LET yearMatch ==
            \/ year = All
            \/ /\ ot.billingDate # Null
               /\ NumberToString(GetFullYear(ot.billingDate[1])) = year
        monthMatch ==
            \/ month = All
            \/ /\ ot.billingDate # Null
               /\ NumberToString(GetMonth(ot.billingDate[1])) = month
        workshopMatch == workshop = All \/ ot.workshop = workshop
    IN  yearMatch /\ monthMatch /\ workshopMatch /\ DynamicMatch(ot, filters)

\* checkFilters with the filter state as arguments (lines 86-109)
CheckFiltersWith(ot, year, month, workshop, filters) ==
    LET dateMatch ==
            IF year # All
            THEN IF ot.billingDate = Null THEN FALSE
                 ELSE LET yearMatch ==
                              NumberToString(GetFullYear(ot.billingDate[1])) = year
                          monthMatch ==
                              \/ month = All
                              \/ NumberToString(GetMonth(ot.billingDate[1])) = month
                      IN  yearMatch /\ monthMatch
            ELSE TRUE
        workshopMatch == workshop = All \/ ot.workshop = workshop
    IN  dateMatch /\ workshopMatch /\ DynamicMatch(ot, filters)

CheckFilters(ot) ==
    CheckFiltersWith(ot, selectedYear, selectedMonth, selectedWorkshop,
                     dynamicFilters)

\* the literal of lines 115 and 127
ExcludedClientCodes ==
    << <<"C", "0", "0", "0", "8", "1", "5", "7">>,
       <<"C", "0", "0", "0", "1", "1", "1", "4">>,
       <<"C", "0", "0", "0", "1", "1", "4", "0">> >>

\* mutant: only the first internal code is excluded
IsExcludedFirstCodeOnly(ot) == ot.clientCode = ExcludedClientCodes[1]

\* mutant: the claims client is not excluded from the views
IsExcludedButClaimsClient(ot) ==
    ot.clientCode \in {ExcludedClientCodes[2], ExcludedClientCodes[3]}

IsExcluded(ot) == ot.clientCode \in Range(ExcludedClientCodes)

AllRefs == [i \in 1..Len(allRows) |-> i]

\* the compliance view without the exclusion of line 115
ComplianceDataWithInternal ==
    SelectSeq(uniqueOTs, LAMBDA ref : CheckFilters(allRows[ref]))

\* lines 112-119, as references into allRows
ComplianceData ==
    SelectSeq(uniqueOTs,
              LAMBDA ref : ~IsExcluded(allRows[ref]) /\ CheckFilters(allRows[ref]))

Deref(refs) == [i \in 1..Len(refs) |-> allRows[refs[i]]]

ComplianceStats == CalculateStats(Deref(ComplianceData))

\* lines 124-130
FinancialData ==
    SelectSeq(AllRefs,
              LAMBDA ref : ~IsExcluded(allRows[ref]) /\ CheckFilters(allRows[ref]))

RECURSIVE SumAmount(_)
SumAmount(ots) ==
    IF ots = <<>> THEN 0 ELSE ots[1].amount + SumAmount(Tail(ots))

\* lines 132-133
FinancialTotal == SumAmount(Deref(FinancialData))

FinancialCount == Len(FinancialData)

ClaimsClientCode == <<"C", "0", "0", "0", "8", "1", "5", "7">>

Reclamo == <<"r", "e", "c", "l", "a", "m", "o">>

\* lines 139-140
IsClientMatch(ot) == ot.clientCode = ClaimsClientCode

IsTypeMatch(ot) ==
    ot.otType # <<>> /\ IncludesString(ToLowerCase(ot.otType), Reclamo)

\* lines 136-146, as references into allRows
ClaimsData ==
    SelectSeq(AllRefs,
              LAMBDA ref : IF ~IsClientMatch(allRows[ref]) \/ ~IsTypeMatch(allRows[ref])
                           THEN FALSE
                           ELSE CheckFilters(allRows[ref]))

\* lines 148-150
ClaimsTotalAmount == SumAmount(Deref(ClaimsData))

ClaimsCount == Len(ClaimsData)

ClaimsUniqueOTs == Cardinality({allRows[ClaimsData[k]].id : k \in 1..Len(ClaimsData)})

\* lines 184-186: the 'Estado' column of the export; `<=` on two Date objects
\* compares their instants
ExportEstado(ot) ==
    IF ot.realDate = Null /\ ot.estimatedDate = Null THEN "Sin Fecha"
    ELSE IF /\ ot.realDate # Null /\ ot.estimatedDate # Null
            /\ ot.realDate[1] <= ot.estimatedDate[1]
    THEN "A Tiempo"
    ELSE IF ot.realDate = Null THEN "Pendiente"
    ELSE "Retraso"

\* lines 430-433: the 'Estado' cell of the compliance table
TableEstado(ot) ==
    IF ot.realDate = Null /\ ot.estimatedDate = Null THEN "Sin Fecha"
    ELSE IF /\ ot.realDate # Null /\ ot.estimatedDate # Null
            /\ ot.realDate[1] <= ot.estimatedDate[1]
    THEN "OK"
    ELSE IF ot.realDate = Null THEN "Pendiente"
    ELSE "Retraso"

\* AuditModal line 16
ValidRows == totalRows - emptyRows - duplicatesRemovedForCompliance

\* lines 41-49: the years of the billing dates
AvailableYears ==
    {GetFullYear(allRows[i].billingDate[1]) :
        i \in {j \in 1..Len(allRows) : allRows[j].billingDate # Null}}

\* lines 51-55
AvailableWorkshops == {allRows[i].workshop : i \in 1..Len(allRows)}

\* lines 57-75
DynamicFilterOptions(field) ==
    {allRows[i].customValues[field] : i \in 1..Len(allRows)} \ {<<>>}

\* month indexes the model selects among the twelve options of line 263
MonthOptions == {0, 2}

\* the records after a render of the Dashboard under a filter state: the
\* useMemo of line 121 runs calculateStats over the compliance view; the
\* filter and reduce calls of the other views (lines 112-150) only read
RenderedRows(rows, unique, year, month, workshop, filters) ==
    AfterCalculateStats(rows,
        SelectSeq(unique,
                  LAMBDA ref : /\ ~IsExcluded(rows[ref])
                               /\ CheckFiltersWith(rows[ref], year, month, workshop,
                                                   filters)))

\* App.tsx lines 66-69: the slots handleMappingConfirm stores the result in
ResultSlots == {"allRows", "uniqueOTs", "processingReport", "mapping"}

\* the end of processSheet (lines 175-198) and of handleMappingConfirm
\* (App.tsx lines 66-69, 74); the Dashboard mounts over the result with its
\* initial filter state (Dashboard lines 78-82)
FinishSheet ==
    /\ pc = "rows"
    /\ stored' = ResultSlots
    /\ loading' = FALSE
    /\ UNCHANGED <<workbook, selectedSheet, error>>
    /\ rowIdx = Len(jsonData)
    /\ uniqueOTs' = MapValues(otMapForCompliance)
    /\ internalClientsCount' = InternalCount(allRows, Len(allRows))
    /\ internalClientsByCode' = InternalByCode(allRows, Len(allRows))
    /\ selectedYear' = All
    /\ selectedMonth' = All
    /\ selectedWorkshop' = All
    /\ dynamicFilters' = <<>>
    /\ pc' = "dashboard"
    /\ allRows' = RenderedRows(allRows, MapValues(otMapForCompliance),
                               All, All, All, <<>>)
    /\ UNCHANGED <<tzOffset, jsonData, mapping, rowIdx,
                   otMapForCompliance, totalRows, emptyRows,
                   duplicatesRemovedForCompliance, removedOtIds>>

\* line 247
SetSelectedYear ==
    /\ pc = "dashboard"
    /\ \E v \in {All} \cup {NumberToString(y) : y \in AvailableYears} :
          /\ selectedYear' = v
          /\ selectedMonth' = IF v = All THEN All ELSE selectedMonth
          /\ allRows' = RenderedRows(allRows, uniqueOTs, v,
                                     IF v = All THEN All ELSE selectedMonth,
                                     selectedWorkshop, dynamicFilters)
    /\ UNCHANGED <<tzOffset, pc, appVars, sheetVarsButRows, selectedWorkshop, dynamicFilters>>

\* lines 259-260: the select is disabled while no year is selected
SetSelectedMonth ==
    /\ pc = "dashboard"
    /\ selectedYear # All
    /\ \E v \in {All} \cup {NumberToString(m) : m \in MonthOptions} :
          /\ selectedMonth' = v
          /\ allRows' = RenderedRows(allRows, uniqueOTs, selectedYear, v,
                                     selectedWorkshop, dynamicFilters)
    /\ UNCHANGED <<tzOffset, pc, appVars, sheetVarsButRows, selectedYear, selectedWorkshop,
                   dynamicFilters>>

\* line 272
SetSelectedWorkshop ==
    /\ pc = "dashboard"
    /\ \E v \in {All} \cup AvailableWorkshops :
          /\ selectedWorkshop' = v
          /\ allRows' = RenderedRows(allRows, uniqueOTs, selectedYear,
                                     selectedMonth, v, dynamicFilters)
    /\ UNCHANGED <<tzOffset, pc, appVars, sheetVarsButRows, selectedYear, selectedMonth,
                   dynamicFilters>>

\* line 287
SetDynamicFilter ==
    /\ pc = "dashboard"
    /\ \E field \in Range(mapping.additionalFilters) :
          \E v \in {All} \cup DynamicFilterOptions(field) :
              /\ dynamicFilters' = MapSet(dynamicFilters, field, v)
              /\ allRows' = RenderedRows(allRows, uniqueOTs, selectedYear,
                                         selectedMonth, selectedWorkshop,
                                         MapSet(dynamicFilters, field, v))
    /\ UNCHANGED <<tzOffset, pc, appVars, sheetVarsButRows, selectedYear, selectedMonth,
                   selectedWorkshop>>

\* the message of App.tsx line 43
ErrorLeyendo == "Error leyendo el archivo. Verifica que sea un Excel valido."

\* the message of App.tsx line 72
ErrorProcesando == "Error procesando los datos. Revisa la asignacion de columnas."

\* handleFileUpload up to the await (App.tsx lines 29-34), from the
\* FileUploader of line 135
HandleFileUpload ==
    /\ pc = "idle"
    /\ UploaderRendered
    /\ loading' = TRUE
    /\ error' = Null
    /\ pc' = "loading"
    /\ UNCHANGED <<tzOffset, workbook, selectedSheet, stored, sheetVars, filterVars>>

\* loadWorkbook resolves (App.tsx lines 34-40, 45, 49-53)
LoadWorkbookResolves(books) ==
    /\ pc = "loading"
    /\ \E sheets \in books :
          /\ workbook' = Some(sheets)
          /\ selectedSheet' = IF Len(sheets) = 1 THEN Some(sheets[1])
                               ELSE selectedSheet
    /\ loading' = FALSE
    /\ pc' = "idle"
    /\ UNCHANGED <<tzOffset, error, stored, sheetVars, filterVars>>

\* loadWorkbook rejects (App.tsx lines 41-45)
LoadWorkbookRejects ==
    /\ pc = "loading"
    /\ error' = Some(ErrorLeyendo)
    /\ loading' = FALSE
    /\ pc' = "idle"
    /\ UNCHANGED <<tzOffset, workbook, selectedSheet, stored, sheetVars, filterVars>>

\* handleSheetSelection (App.tsx lines 55-59), from the buttons of line 169
HandleSheetSelection ==
    /\ pc = "idle"
    /\ SelectorRendered
    /\ workbook # Null
    /\ \E name \in Range(workbook[1]) : selectedSheet' = Some(name)
    /\ UNCHANGED <<tzOffset, pc, workbook, loading, error, stored, sheetVars,
                   filterVars>>

\* mutant: the cancel of the mapper drops the workbook
OnCancelDropsWorkbook ==
    /\ pc = "idle"
    /\ MapperRendered
    /\ workbook' = Null
    /\ UNCHANGED <<tzOffset, pc, selectedSheet, loading, error, stored, sheetVars,
                   filterVars>>

\* onCancel of the ColumnMapper (App.tsx line 192)
OnCancel ==
    /\ pc = "idle"
    /\ MapperRendered
    /\ selectedSheet' = Null
    /\ UNCHANGED <<tzOffset, pc, workbook, loading, error, stored, sheetVars,
                   filterVars>>

\* handleMappingConfirm when processSheet throws (App.tsx lines 61-65, 70-75)
HandleMappingConfirmThrows ==
    /\ pc = "idle"
    /\ MapperRendered
    /\ workbook # Null /\ selectedSheet # Null
    /\ error' = Some(ErrorProcesando)
    /\ loading' = FALSE
    /\ UNCHANGED <<tzOffset, pc, workbook, selectedSheet, stored, sheetVars,
                   filterVars>>

\* App.tsx handleReset (lines 79-89), from the sheet selector (line 178) or
\* the Dashboard (line 201): back to the uploader
HandleReset ==
    /\ pc \in {"idle", "dashboard"}
    /\ SelectorRendered \/ DashboardRendered
    /\ workbook' = Null
    /\ selectedSheet' = Null
    /\ error' = Null
    /\ stored' = {}
    /\ pc' = "idle"
    /\ jsonData' = <<>>
    /\ mapping' = <<>>
    /\ rowIdx' = 0
    /\ allRows' = <<>>
    /\ otMapForCompliance' = <<>>
    /\ totalRows' = 0
    /\ emptyRows' = 0
    /\ duplicatesRemovedForCompliance' = 0
    /\ removedOtIds' = <<>>
    /\ uniqueOTs' = <<>>
    /\ internalClientsCount' = 0
    /\ internalClientsByCode' = <<>>
    /\ selectedYear' = All
    /\ selectedMonth' = All
    /\ selectedWorkshop' = All
    /\ dynamicFilters' = <<>>
    /\ UNCHANGED <<tzOffset, loading>>

\* the workbooks of the model: one sheet, or two
OneSheet == {<<"Hoja1">>}

Workbooks == {<<"Hoja1">>, <<"Hoja1", "Hoja2">>}

InitIn(zones) ==
    /\ tzOffset \in zones
    /\ pc = "idle"
    /\ workbook = Null
    /\ selectedSheet = Null
    /\ loading = FALSE
    /\ error = Null
    /\ stored = {}
    /\ jsonData = <<>>
    /\ mapping = <<>>
    /\ rowIdx = 0
    /\ allRows = <<>>
    /\ otMapForCompliance = <<>>
    /\ totalRows = 0
    /\ emptyRows = 0
    /\ duplicatesRemovedForCompliance = 0
    /\ removedOtIds = <<>>
    /\ uniqueOTs = <<>>
    /\ internalClientsCount = 0
    /\ internalClientsByCode = <<>>
    /\ selectedYear = All
    /\ selectedMonth = All
    /\ selectedWorkshop = All
    /\ dynamicFilters = <<>>

----------------------------------------------------------------------------
(* Inputs the model draws: rows, mappings, time zones *)

SeqsUpTo(S, n) == UNION {[1..k -> S] : k \in 0..n}

ExternalCode == <<"C", "0", "0", "0", "9", "9", "9", "9">>

Norte == <<"N", "o", "r", "t", "e">>

Sur == <<"S", "u", "r">>

Normal == <<"N", "o", "r", "m", "a", "l">>

ReclamoMayusculas == <<"R", "E", "C", "L", "A", "M", "O", " ", "2">>

ReclamoGarantia ==
    <<"R", "e", "c", "l", "a", "m", "o", " ", "G", "a", "r", "a", "n", "t", "i", "a">>

\* an instant: hour h (UTC) of the civil day y-m-d
At(y, m, d, h) == DaysFromCivil(y, m, d) * SecPerDay + h * 3600

BaseRow ==
    [ otNumber |-> Num(7),
      folio |-> Undefined,
      clientCode |-> Str(ExternalCode),
      workshop |-> Str(Norte),
      promisedDate |-> DateCell(At(2024, 3, 10, 4)),
      secondPromisedDate |-> Undefined,
      realDeliveryDate |-> Undefined,
      billingDate |-> Undefined,
      amount |-> Num(100),
      otType |-> Str(Normal),
      invoiceNumber |-> Undefined,
      zona |-> Undefined ]

FullMapping ==
    [ folio |-> TRUE, secondPromisedDate |-> TRUE, billingDate |-> TRUE,
      amount |-> TRUE, otType |-> TRUE, invoiceNumber |-> TRUE,
      additionalFilters |-> <<"zona">> ]

\* two additional filter columns
TwoFilterMapping ==
    [ folio |-> TRUE, secondPromisedDate |-> TRUE, billingDate |-> TRUE,
      amount |-> TRUE, otType |-> TRUE, invoiceNumber |-> TRUE,
      additionalFilters |-> <<"zona", "otType">> ]

MinimalMapping ==
    [ folio |-> FALSE, secondPromisedDate |-> FALSE, billingDate |-> FALSE,
      amount |-> FALSE, otType |-> FALSE, invoiceNumber |-> FALSE,
      additionalFilters |-> <<>> ]

\* rows for the reconciliation: three spellings of two ids (" 7" and the
\* number 7 are the same id), internal or external, with or without a real
\* delivery date; and two rows without an OT number
DedupRows ==
    { [BaseRow EXCEPT !.otNumber = o, !.clientCode = c, !.realDeliveryDate = r] :
        o \in {Str(<<" ", "7">>), Num(7), Str(<<"O", "T", "2">>)},
        c \in {Str(INTERNAL_CLIENT_CODES[1]), Str(ExternalCode)},
        r \in {Undefined, DateCell(At(2024, 3, 10, 16))} }
    \cup { [BaseRow EXCEPT !.otNumber = o] : o \in {Undefined, Str(<<" ", " ">>)} }

\* rows for the statistics: every combination of promised, rescheduled and
\* real delivery date around 2024-03-10 / 2024-03-11
StatsRows ==
    { [BaseRow EXCEPT !.promisedDate = e, !.secondPromisedDate = s2,
                      !.realDeliveryDate = r] :
        e \in {Undefined, DateCell(At(2024, 3, 10, 4))},
        s2 \in {Undefined, DateCell(At(2024, 3, 11, 4))},
        r \in {Undefined, DateCell(At(2024, 3, 10, 4)), DateCell(At(2024, 3, 10, 16)),
               DateCell(At(2024, 3, 11, 2)), DateCell(At(2024, 3, 11, 12)),
               DateCell(At(2024, 3, 12, 12))} }

\* the k-th row of a statistics input carries the OT number k
StatsInputs ==
    { [i \in DOMAIN f |-> [f[i] EXCEPT !.otNumber = Num(i)]] :
        f \in SeqsUpTo(StatsRows, MaxStatsRows) }

\* a sheet of onTime on-time, late late and pending pending orders, dated by
\* spreadsheet serials, alternating between two workshops
RateInput(onTime, late, pending) ==
    [i \in 1..(onTime + late + pending) |->
        [BaseRow EXCEPT !.otNumber = Num(i),
                        !.amount = Num(50 * i),
                        !.workshop = IF i % 2 = 1 THEN Str(Norte) ELSE Str(Sur),
                        !.promisedDate = Num(45000),
                        !.realDeliveryDate =
                            IF i <= onTime THEN Num(45000)
                            ELSE IF i <= onTime + late THEN Num(45001)
                            ELSE Undefined]]

RateInputs ==
    { RateInput(c[1], c[2], c[3]) :
        c \in { t \in (0..MaxRateRows) \X (0..MaxRateRows) \X (0..MaxRateRows) :
                    t[1] + t[2] + t[3] <= MaxRateRows } }

\* rows over three workshops (one of them not named), delivered on time or
\* pending, with promised, delivery and billing dates as spreadsheet serials
WorkshopRows ==
    { [BaseRow EXCEPT !.workshop = w[1], !.billingDate = w[2], !.amount = w[3],
                      !.promisedDate = Num(45000), !.realDeliveryDate = r] :
        w \in { <<Str(Norte), Num(25569), Num(100)>>,
                <<Str(Sur), Num(36526), Num(250)>>,
                <<Undefined, Num(1000), Num(40)>> },
        r \in {Undefined, Num(45000)} }

\* the k-th row of a workshop input carries the OT number k
WorkshopInputs ==
    { [i \in DOMAIN f |-> [f[i] EXCEPT !.otNumber = Num(i)]] :
        f \in SeqsUpTo(WorkshopRows, MaxAggRows) }

\* rows with unusable cells: no OT number, a blank one, the number 0; amounts
\* that are negative, text with a currency prefix, signed text, text without
\* digits, empty text, nothing; dates that are invalid, text that is no date,
\* day/month/year text, year-month-day text, empty text; a custom column that
\* is missing, only spaces, padded text, empty text, a number, plain text
DirtyRows ==
    { [BaseRow EXCEPT !.otNumber = r[1], !.amount = r[2], !.promisedDate = r[3],
                      !.realDeliveryDate = r[4], !.zona = r[5]] :
        r \in { <<Undefined, Str(<<"a", "b", "c">>), InvalidDateCell, Undefined,
                  Undefined>>,
                <<Str(<<" ", " ">>), Num(100), DateCell(At(2024, 3, 10, 4)), Undefined,
                  Undefined>>,
                <<Num(0), Num(100), DateCell(At(2024, 3, 10, 4)), Undefined,
                  Undefined>>,
                <<Num(7), Num(-100), Str(<<"n", "/", "a">>), Undefined,
                  Str(<<" ", " ">>)>>,
                <<Num(7), Str(<<"G", "s", " ", "1", "5", "0", "0">>),
                  DateCell(At(2024, 3, 10, 4)), InvalidDateCell,
                  Str(<<" ">> \o Norte \o <<" ">>)>>,
                <<Str(<<"O", "T", "2">>), Str(<<"-", "5">>),
                  Str(<<"1", "5", "/", "0", "3", "/", "2", "0", "2", "4">>),
                  Str(<<"2", "0", "2", "4", "-", "0", "3", "-", "1", "6">>),
                  Str(<<>>)>>,
                <<Str(<<"O", "T", "2">>), Str(<<"a", "b", "c">>),
                  DateCell(At(2024, 3, 10, 4)), Str(<<>>), Undefined>>,
                <<Str(<<"O", "T", "2">>), Undefined, Undefined, Undefined, Num(5)>>,
                <<Num(7), Str(<<>>), DateCell(At(2024, 3, 10, 4)),
                  DateCell(At(2024, 3, 10, 16)), Str(Sur)>> } }

\* duplicates of one OT number, internal or external, with or without a real
\* delivery date, in two variants that differ in every other field (and in the
\* day of the real delivery date); and one row of another OT number
VariedRows ==
    { [BaseRow EXCEPT !.clientCode = c, !.realDeliveryDate = v[r],
                      !.secondPromisedDate = v[3], !.billingDate = v[4],
                      !.amount = v[5], !.workshop = v[6], !.promisedDate = v[7]] :
        c \in {Str(INTERNAL_CLIENT_CODES[2]), Str(ExternalCode)},
        r \in {1, 2},
        v \in { <<Undefined, DateCell(At(2024, 3, 10, 16)), Undefined, Undefined,
                  Num(100), Str(Norte), DateCell(At(2024, 3, 10, 4))>>,
                <<Undefined, DateCell(At(2024, 3, 12, 16)),
                  DateCell(At(2024, 3, 11, 4)), DateCell(At(2024, 3, 15, 12)),
                  Num(250), Str(Sur), Undefined>> } }
    \cup { [BaseRow EXCEPT !.otNumber = Str(<<"O", "T", "2">>)] }

\* rows for the filtered views: client code, billing date, workshop, the
\* custom column and the OT type vary; two OT numbers, each on three rows;
\* the rows of workshop Norte that were billed were delivered, in the afternoon
DashRows ==
    { [BaseRow EXCEPT !.otNumber = r[1], !.clientCode = r[2], !.billingDate = r[3],
                      !.workshop = r[4], !.zona = r[5], !.otType = r[6],
                      !.realDeliveryDate =
                          IF r[4] = Str(Norte) /\ r[3] # Undefined
                          THEN DateCell(At(2024, 3, 10, 16))
                          ELSE Undefined] :
        r \in { <<Num(7), Str(ExternalCode), DateCell(At(2024, 3, 15, 12)),
                  Str(Norte), Str(Norte), Str(Normal)>>,
                <<Num(7), Str(ExternalCode), DateCell(At(2023, 1, 20, 12)),
                  Str(Sur), Undefined, Str(ReclamoGarantia)>>,
                <<Str(<<"O", "T", "2">>), Str(INTERNAL_CLIENT_CODES[1]),
                  DateCell(At(2024, 3, 15, 12)), Str(Norte), Str(Norte),
                  Str(ReclamoGarantia)>>,
                <<Num(7), Str(INTERNAL_CLIENT_CODES[3]), Undefined, Undefined,
                  Str(Sur), Str(Normal)>>,
                <<Str(<<"O", "T", "2">>), Str(INTERNAL_CLIENT_CODES[1]),
                  DateCell(At(2023, 1, 20, 12)), Str(Sur), Str(Sur), Str(Normal)>>,
                <<Str(<<"O", "T", "2">>), Str(INTERNAL_CLIENT_CODES[1]), Undefined,
                  Str(Norte), Str(Norte), Str(ReclamoMayusculas)>> } }

\* the rows filtered by two custom columns: the external and claim rows
\* billed in 2024 and the external claim row billed in 2023
TwoFilterRows ==
    { row \in DashRows :
        /\ row.billingDate # Undefined
        /\ row.otType # Str(Normal) \/ row.clientCode = Str(ExternalCode) }

TimeZones == {0, -14400}

----------------------------------------------------------------------------
(* Specifications *)

\* the Dashboard over a processed sheet, with its filters
Init == InitIn({-14400})

Next ==
    \/ HandleFileUpload
    \/ LoadWorkbookResolves(OneSheet)
    \/ StartSheet(SeqsUpTo(DashRows, MaxStatsRows), {FullMapping, MinimalMapping})
    \/ StartSheet(SeqsUpTo(TwoFilterRows, MaxStatsRows), {TwoFilterMapping})
    \/ ProcessRow
    \/ FinishSheet
    \/ SetSelectedYear
    \/ SetSelectedMonth
    \/ SetSelectedWorkshop
    \/ SetDynamicFilter
    \/ HandleReset

Spec == Init /\ [][Next]_vars

\* processSheet alone, over the reconciliation rows
InitSheet == InitIn({0})

NextSheet ==
    \/ HandleFileUpload
    \/ LoadWorkbookResolves(OneSheet)
    \/ StartSheet(SeqsUpTo(DedupRows, MaxRows), {FullMapping})
    \/ ProcessRow
    \/ FinishSheet
    \/ HandleReset

SpecSheet == InitSheet /\ [][NextSheet]_vars

\* processSheet and calculateStats over the statistics rows
InitStats == InitIn(TimeZones)

NextStats ==
    \/ HandleFileUpload
    \/ LoadWorkbookResolves(OneSheet)
    \/ StartSheet(StatsInputs, {FullMapping})
    \/ ProcessRow
    \/ FinishSheet
    \/ HandleReset

SpecStats == InitStats /\ [][NextStats]_vars

\* processSheet and calculateStats over sheets dated by serials: rates over
\* up to MaxRateRows orders, workshops over up to MaxAggRows orders
InitAgg == InitIn({-14400})

NextAgg ==
    \/ HandleFileUpload
    \/ LoadWorkbookResolves(OneSheet)
    \/ StartSheet(RateInputs \cup WorkshopInputs, {FullMapping})
    \/ ProcessRow
    \/ FinishSheet
    \/ HandleReset

SpecAgg == InitAgg /\ [][NextAgg]_vars

\* processSheet over rows with unusable cells, the amount column mapped or not
InitDirty == InitIn({-14400})

NextDirty ==
    \/ HandleFileUpload
    \/ LoadWorkbookResolves(OneSheet)
    \/ StartSheet(SeqsUpTo(DirtyRows, MaxDirtyRows), {FullMapping, MinimalMapping})
    \/ ProcessRow
    \/ FinishSheet
    \/ HandleReset

SpecDirty == InitDirty /\ [][NextDirty]_vars

\* processSheet over duplicates that differ in the fields the reconciliation
\* does not read
InitVaried == InitIn({-14400})

NextVaried ==
    \/ HandleFileUpload
    \/ LoadWorkbookResolves(OneSheet)
    \/ StartSheet(SeqsUpTo(VariedRows, MaxVariedRows), {FullMapping})
    \/ ProcessRow
    \/ FinishSheet
    \/ HandleReset

SpecVaried == InitVaried /\ [][NextVaried]_vars

\* the screens of App: uploads that succeed or fail, workbooks of one or two
\* sheets, confirmations that succeed or fail, over sheets of up to
\* MaxAppRows rows
InitApp == InitIn({-14400})

NextApp ==
    \/ HandleFileUpload
    \/ LoadWorkbookResolves(Workbooks)
    \/ LoadWorkbookRejects
    \/ HandleSheetSelection
    \/ OnCancel
    \/ HandleMappingConfirmThrows
    \/ StartSheet(SeqsUpTo(DashRows, MaxAppRows), {FullMapping})
    \/ ProcessRow
    \/ FinishSheet
    \/ HandleReset

SpecApp == InitApp /\ [][NextApp]_vars

----------------------------------------------------------------------------
(* Vocabulary of the claims *)

\* processSheet has returned and the Dashboard shows its result
Returned == pc = "dashboard"

IdsOfAllRows == {allRows[i].id : i \in 1..Len(allRows)}

\* the references (positions in allRows) of the records with this id
Occurrences(id) == {i \in 1..Len(allRows) : allRows[i].id = id}

\* the references uniqueOTs holds for this id
Survivors(id) == {k \in 1..Len(uniqueOTs) : allRows[uniqueOTs[k]].id = id}

Survivor(id) == uniqueOTs[CHOOSE k \in 1..Len(uniqueOTs) : allRows[uniqueOTs[k]].id = id]

InternalSet ==
    { <<"C", "0", "0", "0", "8", "1", "5", "7">>,
      <<"C", "0", "0", "0", "1", "1", "1", "4">>,
      <<"C", "0", "0", "0", "1", "1", "4", "0">> }

IsInternalRecord(i) == allRows[i].clientCode \in InternalSet

HasRealDate(i) == allRows[i].realDate # Null

RepeatedIds == {id \in IdsOfAllRows : Cardinality(Occurrences(id)) > 1}

\* an OT-number cell that is blank after trimming: no value, or only spaces
IsBlankCell(c) ==
    \/ c.t = "undefined"
    \/ c.t = "string" /\ \A i \in 1..Len(c.s) : c.s[i] = " "

\* the forEach callback is about to visit a row with a blank OT number
AtBlankRow ==
    /\ pc = "rows"
    /\ rowIdx < Len(jsonData)
    /\ IsBlankCell(jsonData[rowIdx + 1].otNumber)

\* the forEach callback is about to visit a row whose id was seen before
AtRepeatedRow ==
    /\ pc = "rows"
    /\ rowIdx < Len(jsonData)
    /\ ~IsBlankCell(jsonData[rowIdx + 1].otNumber)
    /\ \E k \in 1..rowIdx :
          /\ ~IsBlankCell(jsonData[k].otNumber)
          /\ Trim(ToStr(jsonData[k].otNumber)) =
                Trim(ToStr(jsonData[rowIdx + 1].otNumber))

----------------------------------------------------------------------------
(* Claims *)

\* C1: after processSheet, uniqueOTs holds exactly one record for every OT id
\* that occurs in allRows and none for any other id, every entry is one of
\* the objects of allRows, and uniqueOTs is no longer than allRows.
C1_UniqueOTsOnePerId ==
    Returned =>
        /\ \A k \in 1..Len(uniqueOTs) : uniqueOTs[k] \in 1..Len(allRows)
        /\ \A id \in IdsOfAllRows : Cardinality(Survivors(id)) = 1
        /\ \A k \in 1..Len(uniqueOTs) : allRows[uniqueOTs[k]].id \in IdsOfAllRows
        /\ Len(uniqueOTs) = Cardinality(IdsOfAllRows)
        /\ Len(uniqueOTs) <= Len(allRows)

C1_Witness ==
    /\ Returned
    /\ Len(allRows) = 3
    /\ Len(uniqueOTs) = 2
    /\ uniqueOTs[1] # 1

\* C2 as stated: the number of distinct OT ids that occur more than once in
\* allRows equals duplicatesRemovedForCompliance.
C2_DuplicatesCountRepeatedIds ==
    Returned => Cardinality(RepeatedIds) = duplicatesRemovedForCompliance

\* C2, amended: duplicatesRemovedForCompliance is the number of non-first
\* occurrences of OT ids in allRows (the records minus the distinct ids), so
\* it is at least the number of ids that occur more than once and equals it
\* exactly when no id occurs three or more times.
C2_DuplicatesCountNonFirstOccurrences ==
    Returned =>
        /\ duplicatesRemovedForCompliance =
              Len(allRows) - Cardinality(IdsOfAllRows)
        /\ duplicatesRemovedForCompliance >= Cardinality(RepeatedIds)
        /\ (duplicatesRemovedForCompliance = Cardinality(RepeatedIds))
              <=> (\A id \in IdsOfAllRows : Cardinality(Occurrences(id)) <= 2)

C2_Witness ==
    /\ Returned
    /\ \E id \in IdsOfAllRows : Cardinality(Occurrences(id)) = 3
    /\ duplicatesRemovedForCompliance = 2

\* C3 as stated: a row whose OT number is blank increments emptyRows, creates
\* no record and changes no other counter of the report, totalRows included.
C3_BlankRowChangesOnlyEmptyRows ==
    [][AtBlankRow =>
          /\ emptyRows' = emptyRows + 1
          /\ allRows' = allRows
          /\ otMapForCompliance' = otMapForCompliance
          /\ totalRows' = totalRows
          /\ duplicatesRemovedForCompliance' = duplicatesRemovedForCompliance
          /\ removedOtIds' = removedOtIds
          /\ InternalCount(allRows', Len(allRows')) = InternalCount(allRows, Len(allRows))
          /\ InternalByCode(allRows', Len(allRows')) = InternalByCode(allRows, Len(allRows))]_vars

\* C3, amended: a row whose OT number is blank increments emptyRows and
\* totalRows (which counts every row read) by one each, creates no record in
\* allRows or in the map behind uniqueOTs, and changes no other counter
\* (duplicatesRemovedForCompliance, removedOtIds, the internal-client tallies).
C3_BlankRowCountsAsReadAndEmpty ==
    [][AtBlankRow =>
          /\ emptyRows' = emptyRows + 1
          /\ totalRows' = totalRows + 1
          /\ allRows' = allRows
          /\ otMapForCompliance' = otMapForCompliance
          /\ duplicatesRemovedForCompliance' = duplicatesRemovedForCompliance
          /\ removedOtIds' = removedOtIds
          /\ InternalCount(allRows', Len(allRows')) = InternalCount(allRows, Len(allRows))
          /\ InternalByCode(allRows', Len(allRows')) = InternalByCode(allRows, Len(allRows))]_vars

C3_Witness ==
    /\ pc = "rows"
    /\ rowIdx = 2
    /\ jsonData[1].otNumber = Num(7)
    /\ jsonData[2].otNumber = Str(<<" ", " ">>)
    /\ emptyRows = 1
    /\ totalRows = 2
    /\ Len(allRows) = 1

\* C4: for every OT id with at least one row whose client code is not
\* internal, the record kept in uniqueOTs is a non-internal one, wherever the
\* internal rows stand in the input.
C4_ExternalAlwaysWins ==
    Returned =>
        \A id \in IdsOfAllRows :
            (\E i \in Occurrences(id) : ~IsInternalRecord(i))
                => ~IsInternalRecord(Survivor(id))

C4_Witness ==
    /\ Returned
    /\ Len(allRows) = 2
    /\ allRows[1].id = allRows[2].id
    /\ IsInternalRecord(1) /\ HasRealDate(1)
    /\ ~IsInternalRecord(2) /\ ~HasRealDate(2)
    /\ uniqueOTs = <<2>>

\* C5: among the rows of one OT id that all have the same internal/external
\* status, a row with a real delivery date survives whenever there is one,
\* whatever the order of the rows.
C5_RealDateWinsWithinStatus ==
    Returned =>
        \A id \in IdsOfAllRows :
            ( /\ \A i, j \in Occurrences(id) : IsInternalRecord(i) = IsInternalRecord(j)
              /\ \E i \in Occurrences(id) : HasRealDate(i) )
                => HasRealDate(Survivor(id))

C5_Witness ==
    /\ Returned
    /\ Len(allRows) = 2
    /\ allRows[1].id = allRows[2].id
    /\ ~IsInternalRecord(1) /\ ~HasRealDate(1)
    /\ ~IsInternalRecord(2) /\ HasRealDate(2)
    /\ uniqueOTs = <<2>>

\* the ranking C6 states: external with date 3, external without date and
\* internal with date 2, internal without date 1
TiedRank(i) ==
    IF ~IsInternalRecord(i) /\ HasRealDate(i) THEN 3
    ELSE IF IsInternalRecord(i) /\ ~HasRealDate(i) THEN 1
    ELSE 2

\* the ranking the four rules give: external above internal, and within a
\* status a real date above none
StrictRank(i) ==
    (IF IsInternalRecord(i) THEN 0 ELSE 2) + (IF HasRealDate(i) THEN 1 ELSE 0)

\* the first row, in source order, among the rows of id whose rank is highest under the ranking
FirstOfHighest(id, Rank(_)) ==
    CHOOSE i \in Occurrences(id) :
        /\ \A j \in Occurrences(id) : Rank(j) <= Rank(i)
        /\ \A j \in Occurrences(id) : Rank(j) = Rank(i) => i <= j

\* C6 as stated: with external-without-date and internal-with-date ranked
\* equal, the survivor is the first-seen row of the highest rank present.
C6_SurvivorFirstOfHighestTiedRank ==
    Returned =>
        \A id \in IdsOfAllRows : Survivor(id) = FirstOfHighest(id, TiedRank)

\* C6, amended: the ranking is strict, external-with-date >
\* external-without-date > internal-with-date > internal-without-date; the
\* survivor has the highest rank present among the rows of its id, and among
\* rows of equal rank the first-seen row is the one kept.
C6_SurvivorFirstOfHighestStrictRank ==
    Returned =>
        \A id \in IdsOfAllRows : Survivor(id) = FirstOfHighest(id, StrictRank)

C6_Witness ==
    /\ Returned
    /\ Len(allRows) = 3
    /\ \A i \in 1..3 : allRows[i].id = allRows[1].id
    /\ IsInternalRecord(1) /\ HasRealDate(1)
    /\ ~IsInternalRecord(2) /\ ~HasRealDate(2)
    /\ ~IsInternalRecord(3) /\ ~HasRealDate(3)
    /\ uniqueOTs = <<2>>

\* C7: every non-first occurrence of an OT id adds exactly one to
\* duplicatesRemovedForCompliance and exactly one entry to removedOtIds,
\* whichever record is discarded; so duplicatesRemovedForCompliance =
\* |removedOtIds| = |allRows| - |uniqueOTs|, and the audit panel's
\* totalRows - emptyRows - duplicatesRemovedForCompliance is |uniqueOTs|.
C7_OnePerNonFirstOccurrence ==
    /\ [][AtRepeatedRow =>
            /\ duplicatesRemovedForCompliance' = duplicatesRemovedForCompliance + 1
            /\ Len(removedOtIds') = Len(removedOtIds) + 1
            /\ SubSeq(removedOtIds', 1, Len(removedOtIds)) = removedOtIds]_vars
    /\ [](Returned =>
            /\ duplicatesRemovedForCompliance = Len(removedOtIds)
            /\ duplicatesRemovedForCompliance = Len(allRows) - Len(uniqueOTs)
            /\ ValidRows = Len(uniqueOTs))

C7_Witness ==
    /\ Returned
    /\ emptyRows = 1
    /\ Len(allRows) = 2
    /\ Len(removedOtIds) = 1
    /\ removedOtIds[1][2] = "Duplicado interno ignorado"
    /\ ValidRows = 1

\* the effective target date of a record: the rescheduled date if present,
\* else the promised date
TargetOf(ot) ==
    IF ot.secondEstimatedDate # Null THEN ot.secondEstimatedDate ELSE ot.estimatedDate

\* the tally C8 assigns to a record, by local calendar day
ExpectedClass(ot) ==
    IF TargetOf(ot) = Null THEN "pending"
    ELSE IF ot.realDate = Null THEN "pending"
    ELSE IF LocalDays(ot.realDate[1]) <= LocalDays(TargetOf(ot)[1]) THEN "onTime"
    ELSE "late"

ExpectedCount(refs, class) ==
    Cardinality({k \in 1..Len(refs) : ExpectedClass(allRows[refs[k]]) = class})

\* the local calendar date (year, month, day) of an instant
CalendarDate(t) == CivilFromDays(LocalDays(t))

\* calendar date a is strictly after calendar date b
CalendarAfter(a, b) ==
    \/ a.year > b.year
    \/ a.year = b.year /\ a.month > b.month
    \/ a.year = b.year /\ a.month = b.month /\ a.day > b.day

\* C8: calculateStats counts every record under exactly one of three tallies
\* against the effective target date: no target date -> pending, target but
\* no real date -> pending, real day <= target day -> on-time, real day >
\* target day -> late.
C8_StatsClassifyAgainstTargetDate ==
    Returned =>
        /\ ComplianceStats.totalOnTime = ExpectedCount(ComplianceData, "onTime")
        /\ ComplianceStats.totalLate = ExpectedCount(ComplianceData, "late")
        /\ ComplianceStats.totalPending = ExpectedCount(ComplianceData, "pending")
        /\ ComplianceStats.totalOTs = Len(ComplianceData)
        /\ ComplianceStats.totalOTs =
              ComplianceStats.totalOnTime + ComplianceStats.totalLate
                + ComplianceStats.totalPending

C8_Witness ==
    /\ Returned
    /\ Len(ComplianceData) = 2
    /\ allRows[1].estimatedDate = Some(NewLocalDate(2024, 2, 10))
    /\ allRows[1].secondEstimatedDate = Null
    /\ allRows[1].realDate # Null
    /\ CalendarDate(allRows[1].realDate[1]) = [year |-> 2024, month |-> 3, day |-> 10]
    /\ allRows[2].estimatedDate = Some(NewLocalDate(2024, 2, 10))
    /\ allRows[2].secondEstimatedDate = Null
    /\ allRows[2].realDate # Null
    /\ CalendarDate(allRows[2].realDate[1]) = [year |-> 2024, month |-> 3, day |-> 11]
    /\ ComplianceStats.totalOnTime = 1
    /\ ComplianceStats.totalLate = 1

\* C9: the comparison is by calendar day: a record is counted late exactly
\* when the calendar day of its real date is strictly after the calendar day
\* of its target date, so a real date on the target's day at a later time of
\* day is counted on-time.
C9_ComparisonAtDayGranularity ==
    Returned =>
        \A k \in 1..Len(ComplianceData) :
            LET ot == allRows[ComplianceData[k]]
                alone == CalculateStats(<<ot>>)
            IN  (ot.realDate # Null /\ TargetOf(ot) # Null) =>
                    LET realDay == CalendarDate(ot.realDate[1])
                        targetDay == CalendarDate(TargetOf(ot)[1])
                    IN  /\ alone.totalLate = 1 <=> CalendarAfter(realDay, targetDay)
                        /\ alone.totalOnTime = 1 <=> ~CalendarAfter(realDay, targetDay)
                        /\ realDay = targetDay => alone.totalOnTime = 1

C9_Witness ==
    /\ Returned
    /\ Len(ComplianceData) = 1
    /\ LET ot == allRows[ComplianceData[1]]
       IN  /\ ot.realDate # Null /\ TargetOf(ot) # Null
           /\ ot.realDate[1] > TargetOf(ot)[1]
           /\ CalendarDate(ot.realDate[1]) = CalendarDate(TargetOf(ot)[1])
    /\ ComplianceStats.totalOnTime = 1
    /\ ComplianceStats.totalLate = 0

\* C10: whatever the filter state, no record whose client code is in the
\* fixed internal set appears in complianceData or in financialData.
C10_InternalClientsNeverInViews ==
    Returned =>
        /\ \A k \in 1..Len(ComplianceData) : ~IsInternalRecord(ComplianceData[k])
        /\ \A k \in 1..Len(FinancialData) : ~IsInternalRecord(FinancialData[k])

C10_Witness ==
    /\ Returned
    /\ selectedYear = NumberToString(2024)
    /\ selectedMonth = NumberToString(2)
    /\ selectedWorkshop = Norte
    /\ dynamicFilters = <<[key |-> "zona", value |-> Norte]>>
    /\ \E k \in 1..Len(uniqueOTs) :
          /\ IsInternalRecord(uniqueOTs[k])
          /\ CheckFilters(allRows[uniqueOTs[k]])
    /\ Len(ComplianceData) = 1
    /\ Len(FinancialData) = 1

\* the sum of the values of a Map of counters
RECURSIVE SumOfValues(_)
SumOfValues(m) ==
    IF m = <<>> THEN 0 ELSE m[1].value + SumOfValues(Tail(m))

\* C11: the internal-client tallies are taken over allRows, not over the
\* deduplicated view: internalClientsCount is the number of records of allRows
\* whose isInternalClient is true and the sum of the values of
\* internalClientsByCode, whose keys all lie in the fixed internal set and
\* whose value for a code is the number of records of allRows with that code;
\* a record that lost its OT id to another row is still counted.
C11_InternalTalliesOverAllRows ==
    Returned =>
        /\ internalClientsCount =
              Cardinality({i \in 1..Len(allRows) : allRows[i].isInternalClient})
        /\ internalClientsCount =
              Cardinality({i \in 1..Len(allRows) : IsInternalRecord(i)})
        /\ internalClientsCount = SumOfValues(internalClientsByCode)
        /\ \A e \in 1..Len(internalClientsByCode) :
              /\ internalClientsByCode[e].key \in InternalSet
              /\ internalClientsByCode[e].value =
                    Cardinality({i \in 1..Len(allRows) :
                        allRows[i].clientCode = internalClientsByCode[e].key})
              /\ \A f \in 1..Len(internalClientsByCode) :
                    internalClientsByCode[f].key = internalClientsByCode[e].key => f = e
        /\ \A i \in 1..Len(allRows) :
              IsInternalRecord(i) =>
                  \E e \in 1..Len(internalClientsByCode) :
                      internalClientsByCode[e].key = allRows[i].clientCode

C11_Witness ==
    /\ Returned
    /\ Len(allRows) = 2
    /\ allRows[1].id = allRows[2].id
    /\ IsInternalRecord(1)
    /\ ~IsInternalRecord(2)
    /\ uniqueOTs = <<2>>
    /\ internalClientsCount = 1
    /\ internalClientsByCode = <<[key |-> allRows[1].clientCode, value |-> 1]>>

\* the letters of 'reclamo', each in either case
ReclamoLetters ==
    << {"r", "R"}, {"e", "E"}, {"c", "C"}, {"l", "L"}, {"a", "A"}, {"m", "M"},
       {"o", "O"} >>

\* the text holds 'reclamo' somewhere, whatever the case of its letters
ContainsReclamo(s) ==
    \E p \in 0..(Len(s) - 7) : \A j \in 1..7 : s[p + j] \in ReclamoLetters[j]

\* a record of the designated client whose OT type names a claim
IsClaim(i) ==
    /\ allRows[i].clientCode = <<"C", "0", "0", "0", "8", "1", "5", "7">>
    /\ ContainsReclamo(allRows[i].otType)

\* C12: claimsData holds exactly the records of allRows whose client code is
\* C0008157, whose otType contains 'reclamo' in any letter case and which pass
\* the current filters, in the order of allRows: a 'Reclamo Garantia' record
\* of that client is selected when the filters pass it, a 'Normal' record of
\* that client and a claim-type record of another client never are.
C12_ClaimsAreDesignatedClientReclamos ==
    Returned =>
        /\ \A k \in 1..Len(ClaimsData) :
              /\ ClaimsData[k] \in 1..Len(allRows)
              /\ \A j \in 1..Len(ClaimsData) : j < k => ClaimsData[j] < ClaimsData[k]
        /\ \A i \in 1..Len(allRows) :
              (\E k \in 1..Len(ClaimsData) : ClaimsData[k] = i)
                  <=> (IsClaim(i) /\ CheckFilters(allRows[i]))
        /\ \A i \in 1..Len(allRows) :
              /\ ( /\ allRows[i].clientCode = ClaimsClientCode
                   /\ allRows[i].otType = ReclamoGarantia
                   /\ CheckFilters(allRows[i]) )
                    => \E k \in 1..Len(ClaimsData) : ClaimsData[k] = i
              /\ (allRows[i].otType = Normal \/ allRows[i].clientCode # ClaimsClientCode)
                    => \A k \in 1..Len(ClaimsData) : ClaimsData[k] # i

C12_Witness ==
    /\ Returned
    /\ Len(allRows) = 2
    /\ allRows[1].clientCode = ExternalCode
    /\ allRows[1].otType = ReclamoGarantia
    /\ allRows[2].clientCode = ClaimsClientCode
    /\ allRows[2].otType = ReclamoGarantia
    /\ selectedWorkshop = All
    /\ CheckFilters(allRows[1])
    /\ CheckFilters(allRows[2])
    /\ ClaimsData = <<2>>
    /\ ClaimsCount = 1

\* the values the month selector offers: 'all' and the indices 0..11
MonthChoices == {All} \cup {NumberToString(mIdx) : mIdx \in 0..11}

\* C13: with a year selected, checkFilters rejects every record without a
\* billing date and every record billed in another year, and a selected month
\* rejects the records billed in another month; with the year at 'all' the
\* month has no effect: whichever month is selected, the same records pass.
C13_MonthAppliesOnlyWithinYear ==
    Returned =>
        \A i \in 1..Len(allRows) :
            LET ot == allRows[i]
            IN  /\ (selectedYear # All /\ CheckFilters(ot)) =>
                      /\ ot.billingDate # Null
                      /\ NumberToString(CalendarDate(ot.billingDate[1]).year) = selectedYear
                      /\ \/ selectedMonth = All
                         \/ NumberToString(CalendarDate(ot.billingDate[1]).month - 1)
                               = selectedMonth
                /\ \A mth \in MonthChoices :
                      CheckFiltersWith(ot, All, mth, selectedWorkshop, dynamicFilters)
                        = CheckFiltersWith(ot, All, All, selectedWorkshop, dynamicFilters)

C13_Witness ==
    /\ Returned
    /\ Len(allRows) = 2
    /\ allRows[1].billingDate = Null
    /\ allRows[2].billingDate # Null
    /\ selectedYear = NumberToString(2024)
    /\ selectedMonth = NumberToString(2)
    /\ selectedWorkshop = All
    /\ ~CheckFilters(allRows[1])
    /\ CheckFilters(allRows[2])
    /\ CheckFiltersWith(allRows[1], All, selectedMonth, All, dynamicFilters)

\* the date criterion of the current filter state
DateCriterion(ot) ==
    \/ selectedYear = All
    \/ /\ ot.billingDate # Null
       /\ NumberToString(CalendarDate(ot.billingDate[1]).year) = selectedYear
       /\ \/ selectedMonth = All
          \/ NumberToString(CalendarDate(ot.billingDate[1]).month - 1) = selectedMonth

\* the workshop criterion: exact string equality
WorkshopCriterion(ot) == selectedWorkshop = All \/ ot.workshop = selectedWorkshop

\* the value selected for a custom filter field, 'all' when none was selected
SelectedValue(field) ==
    IF \E e \in 1..Len(dynamicFilters) : dynamicFilters[e].key = field
    THEN dynamicFilters[CHOOSE e \in 1..Len(dynamicFilters) :
                            dynamicFilters[e].key = field].value
    ELSE All

\* the criterion of one custom filter field: exact string equality
CustomCriterion(ot, field) ==
    SelectedValue(field) = All \/ ot.customValues[field] = SelectedValue(field)

\* C14: checkFilters is the conjunction of its criteria: a record passes
\* exactly when it meets the date criterion, the workshop criterion (exact
\* string equality) and the criterion of every custom filter (exact string
\* equality); a criterion that is absent or at 'all' passes every record, so
\* with every filter at 'all' every record passes.
C14_CheckFiltersIsConjunction ==
    Returned =>
        \A i \in 1..Len(allRows) :
            LET ot == allRows[i]
            IN  /\ CheckFilters(ot) <=>
                      /\ DateCriterion(ot)
                      /\ WorkshopCriterion(ot)
                      /\ \A field \in Range(mapping.additionalFilters) :
                            CustomCriterion(ot, field)
                /\ ( /\ selectedYear = All
                     /\ selectedWorkshop = All
                     /\ \A field \in Range(mapping.additionalFilters) :
                           SelectedValue(field) = All )
                      => CheckFilters(ot)

C14_Witness ==
    /\ Returned
    /\ Len(allRows) = 2
    /\ selectedYear = NumberToString(2024)
    /\ selectedWorkshop = Norte
    /\ Len(dynamicFilters) = 2
    /\ SelectedValue("zona") = Norte
    /\ SelectedValue("otType") = Normal
    /\ CheckFilters(allRows[1])
    /\ DateCriterion(allRows[2])
    /\ WorkshopCriterion(allRows[2])
    /\ CustomCriterion(allRows[2], "zona")
    /\ ~CustomCriterion(allRows[2], "otType")
    /\ ~CheckFilters(allRows[2])

\* r, in hundredths of a percent, is onTime / total * 100 rounded to two
\* decimals (0 when total is 0)
IsRoundedRate(r, onTime, total) ==
    IF total = 0 THEN r = 0
    ELSE /\ 2 * r * total <= 20000 * onTime + total
         /\ 20000 * onTime + total < 2 * (r + 1) * total

\* C15: every workshop's complianceRate and the global averageCompliance are
\* onTime / total * 100 rounded to two decimals, and 0 when the total is 0;
\* ten records of which seven are on time give 70.00.
C15_RatesRoundedToTwoDecimals ==
    Returned =>
        LET stats == ComplianceStats
        IN  /\ IsRoundedRate(stats.averageCompliance, stats.totalOnTime, stats.totalOTs)
            /\ stats.totalOTs = 0 => stats.averageCompliance = 0
            /\ (stats.totalOTs = 10 /\ stats.totalOnTime = 7)
                  => stats.averageCompliance = 7000
            /\ \A w \in 1..Len(stats.workshops) :
                  IsRoundedRate(stats.workshops[w].complianceRate,
                                stats.workshops[w].onTime,
                                stats.workshops[w].totalOTs)

C15_Witness ==
    /\ Returned
    /\ ComplianceStats.totalOTs = 10
    /\ ComplianceStats.totalOnTime = 7
    /\ ComplianceStats.totalLate = 2
    /\ ComplianceStats.averageCompliance = 7000
    /\ Len(ComplianceStats.workshops) = 2
    /\ ComplianceStats.workshops[1].complianceRate = 8000
    /\ ComplianceStats.workshops[2].complianceRate = 6000

\* the position in refs of the first record of the workshop
FirstAppearance(refs, name) ==
    CHOOSE k \in 1..Len(refs) :
        /\ allRows[refs[k]].workshop = name
        /\ \A j \in 1..(k - 1) : allRows[refs[j]].workshop # name

\* C16: the workshops list has exactly one entry for every distinct workshop
\* name of the input, counting that workshop's records, in order of
\* non-increasing totalOTs; workshops with equal totals stand in the order of
\* their first appearance in the input.
C16_WorkshopsSortedByTotalStable ==
    Returned =>
        LET ws == ComplianceStats.workshops
            refs == ComplianceData
        IN  /\ {ws[a].name : a \in 1..Len(ws)} =
                  {allRows[refs[k]].workshop : k \in 1..Len(refs)}
            /\ \A a, b \in 1..Len(ws) : ws[a].name = ws[b].name => a = b
            /\ \A a \in 1..Len(ws) :
                  ws[a].totalOTs =
                      Cardinality({k \in 1..Len(refs) :
                                      allRows[refs[k]].workshop = ws[a].name})
            /\ \A a, b \in 1..Len(ws) :
                  a < b =>
                      /\ ws[a].totalOTs >= ws[b].totalOTs
                      /\ ws[a].totalOTs = ws[b].totalOTs =>
                            FirstAppearance(refs, ws[a].name)
                              < FirstAppearance(refs, ws[b].name)

C16_Witness ==
    /\ Returned
    /\ Len(ComplianceData) = 4
    /\ allRows[1].workshop = Sur
    /\ allRows[2].workshop = Norte
    /\ allRows[3].workshop = SinTallerAsignado
    /\ allRows[4].workshop = SinTallerAsignado
    /\ Len(ComplianceStats.workshops) = 3
    /\ ComplianceStats.workshops[1].name = SinTallerAsignado
    /\ ComplianceStats.workshops[2].name = Sur
    /\ ComplianceStats.workshops[3].name = Norte

\* the date columns of a raw row and the record fields they are parsed into
DateColumns ==
    { <<"promisedDate", "estimatedDate">>, <<"realDeliveryDate", "realDate">>,
      <<"billingDate", "billingDate">> }

\* the days from 1899-12-30 to the UTC day of an instant
SerialOf(t) == (t \div SecPerDay) - DaysFromCivil(1899, 12, 30)

\* C17: a date cell holding the integer serial n is parsed to a non-null
\* date exactly n days after 1899-12-30, that is (n - 25569) * 86400 seconds
\* from the epoch, and the serial derived back from that date is n.
C17_SerialRoundTrip ==
    Returned =>
        /\ Len(allRows) = Len(jsonData)
        /\ \A i \in 1..Len(jsonData) :
              \A c \in DateColumns :
                  jsonData[i][c[1]].t = "number" =>
                      LET n == jsonData[i][c[1]].n
                          parsed == allRows[i][c[2]]
                      IN  /\ parsed # Null
                          /\ parsed[1] = (DaysFromCivil(1899, 12, 30) + n) * 86400
                          /\ parsed[1] = (n - 25569) * 86400
                          /\ parsed[1] % 86400 = 0
                          /\ SerialOf(parsed[1]) = n

C17_Witness ==
    /\ Returned
    /\ Len(allRows) = 2
    /\ jsonData[1].realDeliveryDate = Num(45000)
    /\ allRows[1].realDate = Some(At(2023, 3, 15, 0))
    /\ jsonData[1].billingDate = Num(25569)
    /\ allRows[1].billingDate = Some(0)
    /\ jsonData[2].billingDate = Num(1000)
    /\ allRows[2].billingDate = Some(At(1902, 9, 26, 0))
    /\ SerialOf(allRows[2].billingDate[1]) = 1000

\* the forEach callback visits a row and creates a record for it
RecordCreated ==
    /\ pc = "rows"
    /\ pc' = "rows"
    /\ Len(allRows') = Len(allRows) + 1

\* the characters of an amount text that are digits, '.' or '-'
KeptOfAmount(text) ==
    SelectSeq(text, LAMBDA ch : IsDigit(ch) \/ ch = "." \/ ch = "-")

\* the amount the claim assigns to a cell: 0 when the column is not mapped, a
\* number as it is, for a text the whole number its kept characters spell (with
\* its sign), and 0 for any other cell or text
ExpectedAmount(cell, mapped) ==
    IF ~mapped THEN 0
    ELSE IF cell.t = "number" THEN cell.n
    ELSE IF cell.t = "string"
    THEN LET kept == KeptOfAmount(cell.s)
         IN  IF AllDigits(kept) THEN ParseNat(kept)
             ELSE IF kept # <<>> /\ Head(kept) = "-" /\ AllDigits(Tail(kept))
             THEN 0 - ParseNat(Tail(kept))
             ELSE 0
    ELSE 0

\* a cell that is a negative number, or a text whose kept characters start
\* with '-' before a number other than 0
IsNegativeCell(cell) ==
    \/ cell.t = "number" /\ cell.n < 0
    \/ /\ cell.t = "string"
       /\ KeptOfAmount(cell.s) # <<>>
       /\ Head(KeptOfAmount(cell.s)) = "-"
       /\ AllDigits(Tail(KeptOfAmount(cell.s)))
       /\ ParseNat(Tail(KeptOfAmount(cell.s))) > 0

\* C18 as stated: the amount of every record is a non-negative number: a
\* numeric cell passes through, a text cell yields the number left after
\* stripping every character other than digits, '.' and '-', and an empty,
\* unparsable or unmapped amount yields 0.
C18_AmountNonNegative ==
    [][RecordCreated =>
          LET cell == jsonData[rowIdx + 1].amount
              rec == allRows'[Len(allRows')]
          IN  /\ rec.amount >= 0
              /\ rec.amount = ExpectedAmount(cell, mapping.amount)]_vars

\* C18, amended: the amount of every record is a number, not always
\* non-negative: a numeric cell passes through with its sign, a text cell
\* yields the number left after stripping every character other than digits,
\* '.' and '-', and an empty, unparsable or unmapped amount yields 0; the
\* amount is negative exactly when the mapped cell is a negative number or a
\* text whose kept characters spell a negative number.
C18_AmountPassesThroughWithSign ==
    [][RecordCreated =>
          LET cell == jsonData[rowIdx + 1].amount
              rec == allRows'[Len(allRows')]
          IN  /\ rec.amount = ExpectedAmount(cell, mapping.amount)
              /\ rec.amount < 0 <=> (mapping.amount /\ IsNegativeCell(cell))]_vars

C18_Witness ==
    /\ Returned
    /\ mapping.amount
    /\ Len(allRows) = 3
    /\ jsonData[1].amount = Num(-100)
    /\ allRows[1].amount = -100
    /\ jsonData[2].amount = Str(<<"G", "s", " ", "1", "5", "0", "0">>)
    /\ allRows[2].amount = 1500
    /\ jsonData[3].amount = Str(<<"-", "5">>)
    /\ allRows[3].amount = -5

\* the rows whose OT-number cell is not blank, in source order
NonBlankRows == SelectSeq(jsonData, LAMBDA row : ~IsBlankCell(row.otNumber))

\* C19: no row aborts the batch: processSheet visits every row, totalRows is
\* the number of input rows and equals emptyRows + |allRows|, and allRows
\* holds one record for every row whose OT number is not blank, in source
\* order, whatever unusable dates or amounts the rows contain.
C19_OneRecordPerNonBlankRow ==
    Returned =>
        /\ rowIdx = Len(jsonData)
        /\ totalRows = Len(jsonData)
        /\ totalRows = emptyRows + Len(allRows)
        /\ Len(allRows) = Len(NonBlankRows)
        /\ \A i \in 1..Len(allRows) :
              i <= Len(NonBlankRows) =>
                  allRows[i].id = Trim(ToStr(NonBlankRows[i].otNumber))

\* a record that agrees with ot on OT id, internal/external status and
\* presence of a real delivery date, and differs in the other fields
Altered(ot) ==
    [ot EXCEPT !.secondEstimatedDate =
                   IF @ = Null THEN Some(At(2024, 3, 20, 4)) ELSE Null,
               !.billingDate = IF @ = Null THEN Some(At(2024, 4, 1, 12)) ELSE Null,
               !.estimatedDate = IF @ = Null THEN Some(At(2024, 3, 1, 4)) ELSE Null,
               !.realDate = IF @ = Null THEN Null ELSE Some(@[1] + SecPerDay),
               !.amount = @ + 1,
               !.workshop = IF @ = Norte THEN Sur ELSE Norte,
               !.otType = ReclamoGarantia,
               !.folio = <<"F">>,
               !.invoiceId = Some(<<"I">>)]

\* the inputs that agree with the processed one, row by row, on OT id,
\* internal/external status and presence of a real delivery date
AgreeingInputs ==
    { alt \in { [i \in 1..Len(allRows) |->
                    IF i \in changed THEN Altered(allRows[i]) ELSE allRows[i]] :
                changed \in SUBSET (1..Len(allRows)) } :
        \A i \in 1..Len(allRows) :
            /\ alt[i].id = allRows[i].id
            /\ alt[i].isInternalClient = allRows[i].isInternalClient
            /\ (alt[i].realDate = Null) = (allRows[i].realDate = Null) }

\* C20: the reconciliation depends only on each row's OT id, internal or
\* external status and presence of a real delivery date, and on the order of
\* the rows: every input that agrees with the processed one on these, row by
\* row, whatever its second estimated dates, billing dates, amounts and other
\* fields, keeps the survivor at the same row position for every id and
\* counts the same number of duplicates.
C20_SurvivorIndependentOfOtherFields ==
    Returned =>
        \A alt \in AgreeingInputs :
            LET other == Reconcile(alt, Len(alt))
            IN  /\ MapValues(other.map) = uniqueOTs
                /\ other.duplicates = duplicatesRemovedForCompliance

C20_Witness ==
    /\ Returned
    /\ Len(allRows) = 3
    /\ \A i \in 1..3 : allRows[i].id = allRows[1].id
    /\ \A i \in 1..3 : ~IsInternalRecord(i) /\ HasRealDate(i)
    /\ allRows[1].secondEstimatedDate = Null
    /\ allRows[2].secondEstimatedDate # Null
    /\ allRows[2].amount # allRows[1].amount
    /\ allRows[2].realDate # allRows[1].realDate
    /\ allRows[3] = allRows[1]
    /\ uniqueOTs = <<1>>
    /\ duplicatesRemovedForCompliance = 2
    /\ Cardinality(AgreeingInputs) = 8

\* C21: no transformation changes its input: the render that follows
\* processSheet and the one that follows every change of a filter, where
\* calculateStats runs over the compliance view and the other views are
\* filtered again, leave every record of allRows (its estimatedDate,
\* secondEstimatedDate and realDate included) and the array uniqueOTs as they
\* were.
C21_RendersLeaveRecordsUnchanged ==
    [][( /\ pc' = "dashboard"
         /\ \/ pc = "dashboard"
            \/ pc = "rows" )
          => /\ allRows' = allRows
             /\ pc = "dashboard" => uniqueOTs' = uniqueOTs]_vars

C21_Witness ==
    /\ Returned
    /\ selectedYear = NumberToString(2024)
    /\ selectedWorkshop = Norte
    /\ Len(ComplianceData) = 1
    /\ LET ot == allRows[ComplianceData[1]]
       IN  /\ ot.realDate = Some(At(2024, 3, 10, 16))
           /\ ot.estimatedDate = Some(At(2024, 3, 10, 4))
           /\ SetHoursZero(ot.realDate[1]) # ot.realDate[1]
    /\ ComplianceStats.totalOnTime = 1

\* C22: for every record and every field of mapping.additionalFilters,
\* customValues has an entry for the field: the trimmed string form of the
\* cell, and "N/A" whenever the cell is blank (missing, empty or only
\* spaces); it is never empty.
C22_CustomValuesDefaultWhenBlank ==
    [][RecordCreated =>
          LET row == jsonData[rowIdx + 1]
              rec == allRows'[Len(allRows')]
          IN  /\ DOMAIN rec.customValues = Range(mapping.additionalFilters)
              /\ \A field \in Range(mapping.additionalFilters) :
                    /\ rec.customValues[field] # <<>>
                    /\ rec.customValues[field] =
                          IF IsBlankCell(row[field]) THEN NA
                          ELSE Trim(ToStr(row[field]))]_vars

\* row i has a higher priority than row j: external above internal, and
\* within the same status a real delivery date above none
HigherPriority(i, j) ==
    \/ ~IsInternalRecord(i) /\ IsInternalRecord(j)
    \/ /\ IsInternalRecord(i) = IsInternalRecord(j)
       /\ HasRealDate(i) /\ ~HasRealDate(j)

\* the orders in which the rows of allRows can arrive
RowOrders ==
    { order \in [1..Len(allRows) -> 1..Len(allRows)] :
        \A a, b \in 1..Len(allRows) : order[a] = order[b] => a = b }

\* C23: for every OT id the record kept in uniqueOTs is the earliest row, in
\* source order, among the rows of that id with the highest priority
\* (external above internal, then a real delivery date above none); so
\* whether the survivor is internal and whether it has a real date are the
\* same for every permutation of the rows.
C23_SurvivorEarliestOfHighestPriority ==
    Returned =>
        /\ \A id \in IdsOfAllRows :
              /\ \A j \in Occurrences(id) : ~HigherPriority(j, Survivor(id))
              /\ \A j \in Occurrences(id) :
                    j < Survivor(id) => HigherPriority(Survivor(id), j)
        /\ \A order \in RowOrders :
              LET permuted == [k \in 1..Len(allRows) |-> allRows[order[k]]]
                  other == Reconcile(permuted, Len(permuted))
              IN  \A e \in 1..Len(other.map) :
                      LET kept == permuted[other.map[e].value]
                      IN  /\ kept.id = other.map[e].key
                          /\ kept.isInternalClient = IsInternalRecord(Survivor(kept.id))
                          /\ (kept.realDate # Null) = HasRealDate(Survivor(kept.id))

C23_Witness ==
    /\ Returned
    /\ Len(allRows) = 3
    /\ \A i \in 1..3 : allRows[i].id = allRows[1].id
    /\ IsInternalRecord(1) /\ HasRealDate(1)
    /\ ~IsInternalRecord(2) /\ ~HasRealDate(2)
    /\ ~IsInternalRecord(3) /\ ~HasRealDate(3)
    /\ allRows[3] # allRows[2]
    /\ uniqueOTs = <<2>>
    /\ Cardinality(RowOrders) = 6

\* no filter of the Dashboard is active
NoFilterActive ==
    /\ selectedYear = All
    /\ selectedWorkshop = All
    /\ \A e \in 1..Len(dynamicFilters) : dynamicFilters[e].value = All

\* the OT ids of the records of a view
IdsOf(refs) == {allRows[refs[k]].id : k \in 1..Len(refs)}

\* C24: with no filter active, the compliance view holds exactly one record
\* for every OT id that has at least one non-internal row in allRows and none
\* for an OT id whose rows are all internal; so the OT ids of complianceData
\* are the OT ids of financialData.
C24_ComplianceHoldsEveryExternalId ==
    (Returned /\ NoFilterActive) =>
        /\ \A id \in IdsOfAllRows :
              Cardinality({k \in 1..Len(ComplianceData) :
                              allRows[ComplianceData[k]].id = id})
                = IF \E i \in Occurrences(id) : ~IsInternalRecord(i) THEN 1 ELSE 0
        /\ IdsOf(ComplianceData) = IdsOf(FinancialData)

C24_Witness ==
    /\ Returned
    /\ NoFilterActive
    /\ Len(dynamicFilters) = 1
    /\ Len(allRows) = 2
    /\ allRows[1].id = allRows[2].id
    /\ IsInternalRecord(1)
    /\ ~IsInternalRecord(2)
    /\ ComplianceData = <<2>>
    /\ FinancialData = <<2>>

\* C25: for every input and every filter state, every record of
\* complianceData is also a record of financialData, so
\* complianceStats.totalOTs <= financialCount.
C25_ComplianceWithinFinancial ==
    Returned =>
        /\ \A k \in 1..Len(ComplianceData) :
              \E f \in 1..Len(FinancialData) : FinancialData[f] = ComplianceData[k]
        /\ ComplianceStats.totalOTs <= FinancialCount

C25_Witness ==
    /\ Returned
    /\ Len(allRows) = 2
    /\ allRows[1].id = allRows[2].id
    /\ \A i \in 1..2 : ~IsInternalRecord(i)
    /\ ComplianceData = <<1>>
    /\ FinancialData = <<1, 2>>
    /\ ComplianceStats.totalOTs = 1
    /\ FinancialCount = 2

\* the sum of one field over the workshop entries
RECURSIVE SumOver(_, _)
SumOver(ws, field) ==
    IF ws = <<>> THEN 0 ELSE ws[1][field] + SumOver(Tail(ws), field)

\* C26: calculateStats gives totalOTs = length of the input = totalOnTime +
\* totalLate + totalPending; every workshop entry has totalOTs = onTime +
\* late + pending and totalOTs >= 1; and the sums over the workshops of
\* totalOTs, onTime, late, pending and totalAmount are the global totals.
C26_TalliesAddUp ==
    Returned =>
        LET stats == ComplianceStats
            ws == stats.workshops
        IN  /\ stats.totalOTs = Len(ComplianceData)
            /\ stats.totalOTs = stats.totalOnTime + stats.totalLate + stats.totalPending
            /\ \A w \in 1..Len(ws) :
                  /\ ws[w].totalOTs = ws[w].onTime + ws[w].late + ws[w].pending
                  /\ ws[w].totalOTs >= 1
            /\ SumOver(ws, "totalOTs") = stats.totalOTs
            /\ SumOver(ws, "onTime") = stats.totalOnTime
            /\ SumOver(ws, "late") = stats.totalLate
            /\ SumOver(ws, "pending") = stats.totalPending
            /\ SumOver(ws, "totalAmount") = stats.totalAmount

C26_Witness ==
    /\ Returned
    /\ Len(ComplianceData) = 5
    /\ ComplianceStats.totalOnTime = 2
    /\ ComplianceStats.totalLate = 2
    /\ ComplianceStats.totalPending = 1
    /\ Len(ComplianceStats.workshops) = 2
    /\ ComplianceStats.workshops[1].totalOTs = 3
    /\ ComplianceStats.workshops[1].totalAmount = 450
    /\ ComplianceStats.workshops[2].totalAmount = 300
    /\ ComplianceStats.totalAmount = 750

\* the tally a status label stands for
ClassOfLabel(label) ==
    IF label \in {"A Tiempo", "OK"} THEN "onTime"
    ELSE IF label = "Retraso" THEN "late"
    ELSE "pending"

\* C27: for every record, the status label of the compliance table and of
\* the export's 'Estado' column (A Tiempo/OK, Retraso, Pendiente, Sin Fecha)
\* agrees with the tally calculateStats counts the record under (on-time,
\* late, pending), also when secondEstimatedDate is set and when the real and
\* target dates fall on the same day at different times.
C27_StatusLabelAgreesWithStats ==
    Returned =>
        \A k \in 1..Len(ComplianceData) :
            LET ot == allRows[ComplianceData[k]]
            IN  /\ ClassOfLabel(TableEstado(ot)) = Classify(ot)
                /\ ClassOfLabel(ExportEstado(ot)) = Classify(ot)

\* C28: the claims client code is one of the internal client codes, so in
\* every filter state no record of claimsData is in financialData (none
\* counts in financialTotal or financialCount) and every record of claimsData
\* has isInternalClient true.
C28_ClaimsDisjointFromFinancial ==
    pc = "dashboard" =>
        /\ ClaimsClientCode \in Range(INTERNAL_CLIENT_CODES)
        /\ \A k \in 1..Len(ClaimsData) :
               /\ ClaimsData[k] \notin Range(FinancialData)
               /\ allRows[ClaimsData[k]].isInternalClient
        /\ FinancialCount + ClaimsCount <= Len(allRows)

C28_Witness ==
    /\ pc = "dashboard"
    /\ Len(allRows) = 2
    /\ selectedYear = NumberToString(2024)
    /\ ClaimsData = <<2>>
    /\ FinancialData = <<1>>
    /\ FinancialTotal = allRows[1].amount

\* the screens of App.tsx lines 127-206 that are rendered
RenderedScreens ==
    {screen \in {"uploader", "selector", "mapper", "dashboard"} :
        \/ screen = "uploader" /\ UploaderRendered
        \/ screen = "selector" /\ SelectorRendered
        \/ screen = "mapper" /\ MapperRendered
        \/ screen = "dashboard" /\ DashboardRendered}

\* C29: in every state App reaches by uploads (resolved or rejected), sheet
\* selections, mapping confirmations (returning or throwing), cancels of the
\* mapper and resets, at most one of the uploader, the sheet selector, the
\* column mapper and the dashboard is rendered; selectedSheet set implies
\* workbook set, and uniqueOTs set implies allRows, mapping and selectedSheet
\* set.
C29_AtMostOneScreen ==
    /\ Cardinality(RenderedScreens) <= 1
    /\ selectedSheet # Null => workbook # Null
    /\ "uniqueOTs" \in stored =>
           /\ {"allRows", "mapping"} \subseteq stored
           /\ selectedSheet # Null

C29_Witness ==
    /\ RenderedScreens = {"dashboard"}
    /\ workbook = Some(<<"Hoja1", "Hoja2">>)
    /\ selectedSheet = Some("Hoja2")
    /\ Len(allRows) = 1

\* C30: whenever the dashboard is rendered, error is null and loading is
\* false; an error of an earlier rejected upload or throwing confirmation is
\* cleared before the dashboard shows.
C30_DashboardWithoutError ==
    DashboardRendered => error = Null /\ ~loading

====
